---- MODULE Spec2Model ----
(***************************************************************************)
(* Verification model of the Resello inspection pipeline.                  *)
(*                                                                         *)
(* Part 1: the depreciation calculator, src/price_calculator.py.           *)
(*                                                                         *)
(* Representation                                                          *)
(*   - A rate is an integer number of hundredths (0.15 is 15, 0.90 is 90). *)
(*     Every rate in the source tables is a whole number of hundredths, so *)
(*     sums and comparisons of rates are exact here; the binary rounding   *)
(*     of Python floats (errors of about 1e-16) is not represented.        *)
(*   - A usage duration is an integer number of tenths of a year, the step *)
(*     of the input slider.                                                *)
(*   - A base price is an integer; an amount or a final price is an        *)
(*     integer number of hundredths of a currency unit, i.e. the product   *)
(*     price * rate without the division by 100.                           *)
(*   - A Python value that may be None is a tuple: <<>> is None, <<v>> is  *)
(*     the value v.  A Python dict is a function; a key that is absent     *)
(*     from the dict is absent from its DOMAIN.                            *)
(*   - A call either returns a value, returns None, or raises; the field   *)
(*     status of a result says which ("ok", "returned_none", "raised").    *)
(***************************************************************************)
EXTENDS Integers, Sequences, FiniteSets, TLC

VARIABLES
    age_depreciation_map,   \* PriceCalculator.age_depreciation_map
    defect_rates,           \* PriceCalculator.defect_rates, in insertion order
    call,                   \* the call in progress or just completed, with its arguments
    result,                 \* what that call returned or raised
    history,                \* the earlier completed calls with their results, oldest first
    session_state           \* st.session_state of the wizard

vars == <<age_depreciation_map, defect_rates, call, result, history, session_state>>

(***************************************************************************)
(* Bounds of the model.                                                    *)
(***************************************************************************)
MaxYears == 10          \* usage durations range over -1.0 .. MaxYears years
MaxSmallPrice == 3      \* base prices range over -1 .. MaxSmallPrice, plus SamplePrices
MaxIssues == 2          \* longest issue list passed to calculate_final_price
MaxDefectIssues == 2    \* longest issue list passed to calculate_defect_depreciation

\* Tenths of a year in one year (the slider step is 0.1).
YearUnit == 10

Min(a, b) == IF a <= b THEN a ELSE b
Max(a, b) == IF a >= b THEN a ELSE b

(***************************************************************************)
(* Python primitives used by the calculator.                               *)
(***************************************************************************)
UpperChars == "ABCDEFGHIJKLMNOPQRSTUVWXYZ"
LowerChars == "abcdefghijklmnopqrstuvwxyz"

\* str.lower() on one character.
LowerChar(c) ==
    IF \E i \in 1..Len(UpperChars) : SubSeq(UpperChars, i, i) = c
    THEN LET i == CHOOSE j \in 1..Len(UpperChars) : SubSeq(UpperChars, j, j) = c
         IN  SubSeq(LowerChars, i, i)
    ELSE c

\* str.lower()
RECURSIVE str_lower(_)
str_lower(s) ==
    IF s = "" THEN ""
    ELSE LowerChar(SubSeq(s, 1, 1)) \o str_lower(SubSeq(s, 2, Len(s)))

\* Python's  sub in s  on strings.
str_contains(sub, s) ==
    \E i \in 0..(Len(s) - Len(sub)) : SubSeq(s, i + 1, i + Len(sub)) = sub

\* int(years): truncation toward zero of a duration given in tenths.
int_trunc(years) ==
    IF years >= 0 THEN years \div YearUnit ELSE -((-years) \div YearUnit)

\* dict.get(key, default): the default is used only when the key is absent.
dict_get(d, key, default) ==
    IF key \in DOMAIN d THEN d[key] ELSE <<default>>

(***************************************************************************)
(* PriceCalculator.__init__                                                *)
(***************************************************************************)
InitAgeDepreciationMap ==
    (0 :> 15) @@ (1 :> 15) @@ (2 :> 25) @@ (3 :> 35) @@
    (4 :> 43) @@ (5 :> 50) @@ (6 :> 55) @@ (7 :> 60)

InitDefectRates ==
    << [category |-> "scratches",     rates |-> [low |-> 2,  medium |-> 5,  high |-> 8]],
       [category |-> "dents",         rates |-> [low |-> 3,  medium |-> 7,  high |-> 12]],
       [category |-> "cracks",        rates |-> [low |-> 10, medium |-> 20, high |-> 35]],
       [category |-> "heavy wear",    rates |-> [low |-> 5,  medium |-> 10, high |-> 15]],
       [category |-> "discoloration", rates |-> [low |-> 2,  medium |-> 4,  high |-> 7]],
       [category |-> "broken parts",  rates |-> [low |-> 15, medium |-> 30, high |-> 50]],
       [category |-> "other",         rates |-> [low |-> 2,  medium |-> 5,  high |-> 10]] >>

(***************************************************************************)
(* PriceCalculator.calculate_age_depreciation                              *)
(***************************************************************************)
\* Mutant of calculate_age_depreciation: the clamp compares with 8, not 7.
calculate_age_depreciation_late_clamp(years) ==
    LET whole_years == int_trunc(years)
    IN  IF whole_years \in DOMAIN age_depreciation_map
        THEN age_depreciation_map[whole_years]
        ELSE IF whole_years > 8 THEN 60 ELSE 15

calculate_age_depreciation(years) ==
    LET whole_years == int_trunc(years)
    IN  IF whole_years \in DOMAIN age_depreciation_map
        THEN age_depreciation_map[whole_years]
        ELSE IF whole_years > 7 THEN 60 ELSE 15

(***************************************************************************)
(* PriceCalculator.calculate_defect_depreciation                           *)
(***************************************************************************)
\* issue.get("type", "other") and issue.get("severity", "low"), before .lower()
issue_type_raw(issue) == dict_get(issue, "type", "other")
severity_raw(issue) == dict_get(issue, "severity", "low")

\* .lower() on None raises AttributeError.
issue_raises(issue) == issue_type_raw(issue) = <<>> \/ severity_raw(issue) = <<>>

\* The loop "for category in self.defect_rates: if category in issue_type:
\* rate_category = category; break", started at table position i.
RECURSIVE match_from(_, _)
match_from(i, issue_type) ==
    IF i > Len(defect_rates) THEN "other"
    ELSE IF str_contains(defect_rates[i].category, issue_type)
         THEN defect_rates[i].category
         ELSE match_from(i + 1, issue_type)

\* Mutant of rate_category_of: the last table entry contained in the type is
\* taken instead of the first.
rate_category_of_last(issue_type) ==
    LET hits == {i \in 1..Len(defect_rates) :
                    str_contains(defect_rates[i].category, issue_type)}
    IN  IF hits = {} THEN "other"
        ELSE defect_rates[CHOOSE i \in hits : \A j \in hits : j <= i].category

rate_category_of(issue_type) == match_from(1, issue_type)

\* self.defect_rates[rate_category]
rates_of(rate_category) ==
    LET i == CHOOSE j \in 1..Len(defect_rates) : defect_rates[j].category = rate_category
    IN  defect_rates[i].rates

\* Mutant of severity_rate: the default is the "high" rate.
severity_rate_default_high(rate_category, severity) ==
    LET row == rates_of(rate_category)
    IN  IF severity \in DOMAIN row THEN row[severity] ELSE row["high"]

\* self.defect_rates[rate_category].get(severity, self.defect_rates[rate_category]["low"])
severity_rate(rate_category, severity) ==
    LET row == rates_of(rate_category)
    IN  IF severity \in DOMAIN row THEN row[severity] ELSE row["low"]

\* Mutant of breakdown_entry: the type is matched without .lower().
breakdown_entry_case_sensitive(issue) ==
    LET issue_type == issue_type_raw(issue)[1]
        severity == str_lower(severity_raw(issue)[1])
    IN  [type |-> issue_type,
         severity |-> severity,
         rate |-> severity_rate(rate_category_of(issue_type), severity),
         description |-> dict_get(issue, "description", "")]

\* The breakdown entry appended for one issue (an issue that does not raise).
breakdown_entry(issue) ==
    LET issue_type == str_lower(issue_type_raw(issue)[1])
        severity == str_lower(severity_raw(issue)[1])
    IN  [type |-> issue_type,
         severity |-> severity,
         rate |-> severity_rate(rate_category_of(issue_type), severity),
         description |-> dict_get(issue, "description", "")]

\* Mutant of accumulate: "=" written for "+=".
accumulate_assign(total_rate, rate) == rate

\* total_rate += rate
accumulate(total_rate, rate) == total_rate + rate

\* Mutant of defect_result: the 50% cap is forgotten.
defect_result_uncapped(total_rate, breakdown) ==
    [status |-> "ok",
     total_rate |-> total_rate,
     raw_total |-> total_rate,
     breakdown |-> breakdown,
     is_capped |-> total_rate > 50]

\* Mutant of defect_result: the flag compares with ">=".
defect_result_flag_ge(total_rate, breakdown) ==
    [status |-> "ok",
     total_rate |-> Min(total_rate, 50),
     raw_total |-> total_rate,
     breakdown |-> breakdown,
     is_capped |-> total_rate >= 50]

\* The statements after the loop: the 50% cap and the returned dict.
defect_result(total_rate, breakdown) ==
    [status |-> "ok",
     total_rate |-> Min(total_rate, 50),
     raw_total |-> total_rate,
     breakdown |-> breakdown,
     is_capped |-> total_rate > 50]

\* The loop over the issues from position i on, then the return.
RECURSIVE defect_loop(_, _, _, _)
defect_loop(issues, i, total_rate, breakdown) ==
    IF i > Len(issues) THEN defect_result(total_rate, breakdown)
    ELSE IF issue_raises(issues[i])
         THEN [status |-> "raised", error |-> "AttributeError"]
         ELSE LET entry == breakdown_entry(issues[i])
              IN  defect_loop(issues, i + 1, accumulate(total_rate, entry.rate),
                              Append(breakdown, entry))

calculate_defect_depreciation(issues) == defect_loop(issues, 1, 0, <<>>)

(***************************************************************************)
(* PriceCalculator.calculate_final_price                                   *)
(***************************************************************************)
\* Python's "not base_price": None and 0 are falsy.
not_base_price(base_price) == base_price = <<>> \/ base_price[1] = 0

\* Mutant of combine_rates: the 0.90 ceiling is forgotten.
combine_rates_uncapped(age_rate, defect_rate) == age_rate + defect_rate

\* total_depreciation_rate = min(age_rate + defect_rate, 0.90)
combine_rates(age_rate, defect_rate) == Min(age_rate + defect_rate, 90)

\* Mutant of floor_price: min() written for max().
floor_price_min(base_price, total_depreciation_rate) ==
    LET final_price == base_price * (100 - total_depreciation_rate)
        min_price == base_price * 10
    IN  Min(final_price, min_price)

\* final_price = base_price * (1 - total); min_price = base_price * 0.10;
\* final_price = max(final_price, min_price)      (in hundredths)
floor_price(base_price, total_depreciation_rate) ==
    LET final_price == base_price * (100 - total_depreciation_rate)
        min_price == base_price * 10
    IN  Max(final_price, min_price)

\* Mutant of calculate_final_price: the age and defect amounts are subtracted
\* from the base price directly, without the 0.90 ceiling and the 10% floor.
calculate_final_price_unclamped(base_price, years, issues) ==
    IF not_base_price(base_price) THEN [status |-> "returned_none"]
    ELSE LET age_rate == calculate_age_depreciation(years)
             defect_data == calculate_defect_depreciation(issues)
         IN  IF defect_data.status = "raised" THEN defect_data
             ELSE LET defect_rate == defect_data.total_rate
                      total_depreciation_rate == age_rate + defect_rate
                  IN  [status |-> "ok",
                       base_price |-> base_price[1],
                       age_depreciation |->
                           [years |-> years,
                            rate |-> age_rate,
                            amount |-> base_price[1] * age_rate],
                       defect_depreciation |->
                           [rate |-> defect_rate,
                            amount |-> base_price[1] * defect_rate,
                            breakdown |-> defect_data.breakdown],
                       total_depreciation_rate |-> total_depreciation_rate,
                       total_depreciation_amount |-> base_price[1] * total_depreciation_rate,
                       final_price |-> base_price[1] * (100 - total_depreciation_rate),
                       currency |-> "EGP"]

calculate_final_price(base_price, years, issues) ==
    IF not_base_price(base_price) THEN [status |-> "returned_none"]
    ELSE LET age_rate == calculate_age_depreciation(years)
             defect_data == calculate_defect_depreciation(issues)
         IN  IF defect_data.status = "raised" THEN defect_data
             ELSE LET defect_rate == defect_data.total_rate
                      total_depreciation_rate == combine_rates(age_rate, defect_rate)
                  IN  [status |-> "ok",
                       base_price |-> base_price[1],
                       age_depreciation |->
                           [years |-> years,
                            rate |-> age_rate,
                            amount |-> base_price[1] * age_rate],
                       defect_depreciation |->
                           [rate |-> defect_rate,
                            amount |-> base_price[1] * defect_rate,
                            breakdown |-> defect_data.breakdown],
                       total_depreciation_rate |-> total_depreciation_rate,
                       total_depreciation_amount |-> base_price[1] * total_depreciation_rate,
                       final_price |-> floor_price(base_price[1], total_depreciation_rate),
                       currency |-> "EGP"]

(***************************************************************************)
(* Inputs of the calls.                                                    *)
(***************************************************************************)
\* Usage durations, in tenths of a year: -1.0 .. MaxYears.
YearsDomain == (-YearUnit)..(MaxYears * YearUnit)

\* Durations used with calculate_final_price: the first and the last tenth
\* of every whole year.
FinalYears == {y \in YearsDomain : y % YearUnit \in {0, YearUnit - 1}}

SamplePrices == {100, 10000}
BasePrices == {<<>>} \cup {<<p>> : p \in ((-1)..MaxSmallPrice) \cup SamplePrices}

\* Findings that make up the longer issue lists.
BasicFindings ==
    { [type |-> <<"scratches">>, severity |-> <<"low">>, location |-> <<"lid">>],
      [type |-> <<"Cracks">>, severity |-> <<"HIGH">>,
       description |-> <<"Cracked screen">>],
      [type |-> <<"broken parts">>, severity |-> <<"high">>],
      [type |-> <<"cracks and scratches">>, severity |-> <<"medium">>],
      [severity |-> <<"severe">>, description |-> <<>>],
      [type |-> <<"dents">>, severity |-> <<>>] }

\* Type and severity values of the findings passed one at a time.
TypeValues ==
    { <<>>, <<"">>, <<"scratches">>, <<"Cracks">>, <<"deep cracks">>,
      <<"cracks and scratches">>, <<"crack">>, <<"dent">>, <<"dents">>,
      <<"scratch">>,
      <<"Broken Parts">>, <<"HEAVY WEAR">>, <<"wear">>, <<"discoloration">>,
      <<"other">>, <<"water damage">> }

SeverityValues ==
    { <<>>, <<"">>, <<"low">>, <<"medium">>, <<"high">>, <<"Medium">>,
      <<"HIGH">>, <<"severe">> }

SingleFindings ==
    {[type |-> t, severity |-> s] : t \in TypeValues, s \in SeverityValues}
    \cup {[type |-> t, location |-> <<"back">>] : t \in TypeValues}
    \cup {[severity |-> s, location |-> <<"back">>] : s \in SeverityValues}
    \cup {[location |-> <<"back">>]}

\* All sequences over S of length at most n.
SeqsUpTo(S, n) == UNION {[1..k -> S] : k \in 0..n}

AgeCalls == {[method |-> "calculate_age_depreciation", years |-> y] : y \in YearsDomain}

DefectCalls ==
    {[method |-> "calculate_defect_depreciation", issues |-> is] :
        is \in SeqsUpTo(BasicFindings, MaxDefectIssues) \cup {<<f>> : f \in SingleFindings}}

FinalCalls ==
    {[method |-> "calculate_final_price", base_price |-> bp, years |-> y, issues |-> is] :
        bp \in BasePrices, y \in FinalYears, is \in SeqsUpTo(BasicFindings, MaxIssues)}

\* The calls of scenarios 2 and 3 of the specification.
Scenario2Call ==
    [method |-> "calculate_final_price", base_price |-> <<10000>>, years |-> 0,
     issues |-> <<[type |-> <<"cracks">>, severity |-> <<"high">>]>>]

Scenario3Call ==
    [method |-> "calculate_final_price", base_price |-> <<10000>>, years |-> 10 * YearUnit,
     issues |-> <<[type |-> <<"broken parts">>, severity |-> <<"high">>],
                 [type |-> <<"broken parts">>, severity |-> <<"high">>]>>]

ScenarioCalls == {Scenario2Call, Scenario3Call}

(***************************************************************************)
(* The calculator as a state machine: a freshly constructed calculator     *)
(* receives one call, which then returns or raises.                        *)
(***************************************************************************)
\* st.session_state after the initialization in app.py and the loading of
\* the CLIP model: None is <<>>, the dicts are empty, usage_years is in tenths.
InitSessionState ==
    [step |-> 1,
     inspection |-> <<>>,
     product_type |-> <<>>,
     product_name |-> "",
     usage_years |-> 0,
     uploaded_files |-> <<>>,
     analysis_results |-> <<>>,
     gemini_api_key |-> "GOOGLE_API_KEY",
     serpapi_key |-> "SERPAPI_KEY",
     clip_loaded |-> TRUE]

Pending == [status |-> "pending"]

Init ==
    /\ age_depreciation_map = InitAgeDepreciationMap
    /\ defect_rates = InitDefectRates
    /\ call \in AgeCalls \cup DefectCalls \cup FinalCalls \cup ScenarioCalls
    /\ result = Pending
    /\ history = <<>>
    /\ session_state = InitSessionState

AgeDepreciationCall ==
    /\ result = Pending
    /\ call.method = "calculate_age_depreciation"
    /\ result' = [status |-> "ok", rate |-> calculate_age_depreciation(call.years)]
    /\ UNCHANGED <<age_depreciation_map, defect_rates, call, history, session_state>>

DefectDepreciationCall ==
    /\ result = Pending
    /\ call.method = "calculate_defect_depreciation"
    /\ result' = calculate_defect_depreciation(call.issues)
    /\ UNCHANGED <<age_depreciation_map, defect_rates, call, history, session_state>>

FinalPriceCall ==
    /\ result = Pending
    /\ call.method = "calculate_final_price"
    /\ result' = calculate_final_price(call.base_price, call.years, call.issues)
    /\ UNCHANGED <<age_depreciation_map, defect_rates, call, history, session_state>>

Next == AgeDepreciationCall \/ DefectDepreciationCall \/ FinalPriceCall

Spec == Init /\ [][Next]_vars

(***************************************************************************)
(* Properties of calculate_final_price.                                    *)
(***************************************************************************)
FinalReturned == call.method = "calculate_final_price" /\ result.status = "ok"

\* C1: whenever calculate_final_price returns a pricing result for a usage
\* duration of at least 0 years, whatever the findings, the returned
\* total_depreciation_rate is at most 0.90.
C1_TotalRateAtMost90 ==
    (FinalReturned /\ call.years >= 0) => result.total_depreciation_rate <= 90

\* The 0.90 ceiling is what bounds the rate: age and defect rates add up to more.
C1_Witness ==
    /\ FinalReturned
    /\ call.years >= 0
    /\ result.age_depreciation.rate + result.defect_depreciation.rate > 90
    /\ result.total_depreciation_rate = 90

\* C2: whenever calculate_final_price returns a pricing result for a usage
\* duration of at least 0 years, the returned final_price is at least
\* 0.10 x base_price.
C2_FinalPriceAtLeastTenth ==
    (FinalReturned /\ call.years >= 0) => result.final_price >= call.base_price[1] * 10

\* A positive price is depreciated all the way down to the 10% level.
C2_Witness ==
    /\ FinalReturned
    /\ call.years >= 0
    /\ call.base_price[1] > 0
    /\ Len(call.issues) > 0
    /\ result.final_price = call.base_price[1] * 10

\* C3: calculate_final_price produces no pricing result (it fails) whenever
\* base_price is None, zero or negative (shown for usage durations >= 0).
C3_InvalidBasePriceRejected ==
    (/\ call.method = "calculate_final_price"
     /\ result # Pending
     /\ call.years >= 0
     /\ (call.base_price = <<>> \/ call.base_price[1] <= 0))
    => result.status # "ok"

\* C4: for every valid input (base_price > 0, years >= 0) the returned
\* total_depreciation_rate is min(age_rate + defect_rate, 0.90) and the returned
\* final_price is max(base_price x (1 - total_depreciation_rate),
\* base_price x 0.10), where age_rate is calculate_age_depreciation(years) and
\* defect_rate is the capped total of calculate_defect_depreciation(issues).
C4_Combination ==
    (FinalReturned /\ call.base_price[1] > 0 /\ call.years >= 0) =>
        LET age_rate == result.age_depreciation.rate
            defect_rate == result.defect_depreciation.rate
            total == result.total_depreciation_rate
            bp == call.base_price[1]
        IN  /\ age_rate = calculate_age_depreciation(call.years)
            /\ defect_rate = calculate_defect_depreciation(call.issues).total_rate
            /\ total = (IF age_rate + defect_rate <= 90 THEN age_rate + defect_rate ELSE 90)
            /\ result.final_price =
                  (IF bp * (100 - total) >= bp * 10 THEN bp * (100 - total) ELSE bp * 10)

\* A valid call with findings whose combined rate stays below the ceiling.
C4_Witness ==
    /\ FinalReturned
    /\ call.base_price[1] = 10000
    /\ call.years >= 0
    /\ result.defect_depreciation.rate > 0
    /\ result.total_depreciation_rate < 90
    /\ result.final_price = 10000 * (100 - result.total_depreciation_rate)

(***************************************************************************)
(* Properties of calculate_defect_depreciation.                            *)
(***************************************************************************)
DefectReturned == call.method = "calculate_defect_depreciation" /\ result.status = "ok"

\* The rate table as the specification gives it: vocabulary name -> row.
VocabularyOrder ==
    <<"scratches", "dents", "cracks", "heavy wear", "discoloration", "broken parts", "other">>

RateTable ==
    [scratches |-> [low |-> 2, medium |-> 5, high |-> 8],
     dents |-> [low |-> 3, medium |-> 7, high |-> 12],
     cracks |-> [low |-> 10, medium |-> 20, high |-> 35],
     heavy_wear |-> [low |-> 5, medium |-> 10, high |-> 15],
     discoloration |-> [low |-> 2, medium |-> 4, high |-> 7],
     broken_parts |-> [low |-> 15, medium |-> 30, high |-> 50],
     other |-> [low |-> 2, medium |-> 5, high |-> 10]]

RowOf(name) ==
    CASE name = "scratches" -> RateTable.scratches
      [] name = "dents" -> RateTable.dents
      [] name = "cracks" -> RateTable.cracks
      [] name = "heavy wear" -> RateTable.heavy_wear
      [] name = "discoloration" -> RateTable.discoloration
      [] name = "broken parts" -> RateTable.broken_parts
      [] name = "other" -> RateTable.other

\* The sum of the rate fields of a list of breakdown entries.
RECURSIVE SumRates(_)
SumRates(entries) ==
    IF entries = <<>> THEN 0 ELSE Head(entries).rate + SumRates(Tail(entries))

\* The rate of each finding of a list, priced on its own.
OwnRates(issues) == [i \in 1..Len(issues) |-> breakdown_entry(issues[i])]

\* C5: the defect rate returned by calculate_defect_depreciation equals
\* min(sum of the individual finding rates, 0.50), never exceeds 0.50, and
\* the uncapped sum is recorded in the result (raw_total).
C5_DefectRateCapped ==
    DefectReturned =>
        LET raw == SumRates(OwnRates(call.issues))
        IN  /\ result.total_rate = (IF raw <= 50 THEN raw ELSE 50)
            /\ result.total_rate <= 50
            /\ result.raw_total = raw

\* The raw sum exceeds 0.50: the cap is active and the excess is recorded.
C5_Witness ==
    /\ DefectReturned
    /\ result.raw_total > 50
    /\ result.total_rate = 50

\* C6: adding a finding f to a list L never decreases the defect rate, and
\* once the rate of L is 0.50 the rate of L + [f] is exactly 0.50.
C6_DefectMonotonic ==
    DefectReturned =>
        \A f \in BasicFindings \cup SingleFindings :
            LET longer == calculate_defect_depreciation(Append(call.issues, f))
            IN  longer.status = "ok" =>
                    /\ longer.total_rate >= result.total_rate
                    /\ (result.total_rate = 50 => longer.total_rate = 50)

\* A non-empty list at the cap, and a shorter one that a finding still raises.
C6_Witness ==
    /\ DefectReturned
    /\ Len(call.issues) > 0
    /\ result.total_rate = 50
    /\ \E f \in BasicFindings :
          /\ calculate_defect_depreciation(Append(call.issues, f)).status = "ok"
          /\ calculate_defect_depreciation(Append(call.issues, f)).raw_total > result.raw_total

\* One breakdown entry per finding, in input order, each with the finding's
\* own lower-cased type and severity and its own uncapped rate.
BreakdownPreserved(breakdown, issues) ==
    /\ Len(breakdown) = Len(issues)
    /\ \A i \in 1..Len(issues) :
          /\ breakdown[i].type = str_lower(dict_get(issues[i], "type", "other")[1])
          /\ breakdown[i].severity = str_lower(dict_get(issues[i], "severity", "low")[1])
          /\ breakdown[i].rate = breakdown_entry(issues[i]).rate
          /\ breakdown[i].rate =
                calculate_defect_depreciation(<<issues[i]>>).raw_total

\* C7: the breakdown holds exactly one entry per input finding, in input
\* order, each with that finding's own uncapped rate, also when the 0.50 cap
\* is active (in the result of calculate_defect_depreciation and in the
\* defect_depreciation part of the pricing result); and the flag is_capped is
\* true exactly when the raw sum exceeds 0.50.
C7_BreakdownAndFlag ==
    /\ DefectReturned =>
          /\ BreakdownPreserved(result.breakdown, call.issues)
          /\ SumRates(result.breakdown) = result.raw_total
          /\ result.is_capped = (SumRates(result.breakdown) > 50)
    /\ FinalReturned =>
          BreakdownPreserved(result.defect_depreciation.breakdown, call.issues)

\* The cap is active on a list of several findings.
C7_Witness ==
    /\ DefectReturned
    /\ Len(call.issues) >= 2
    /\ result.is_capped
    /\ result.total_rate < SumRates(result.breakdown)

\* Positions in the vocabulary of the names that occur inside a type.
ContainedNames(issue_type) ==
    {k \in 1..Len(VocabularyOrder) : str_contains(VocabularyOrder[k], issue_type)}

\* The first vocabulary name, in table order, that occurs inside a type;
\* "other" when none does.
FirstContained(issue_type) ==
    IF ContainedNames(issue_type) = {} THEN "other"
    ELSE VocabularyOrder[CHOOSE k \in ContainedNames(issue_type) :
                            \A m \in ContainedNames(issue_type) : k <= m]

Recognized == {"low", "medium", "high"}

\* A breakdown entry is priced with the row of a vocabulary name.
PricedWithRow(entry, name) ==
    entry.rate = (IF entry.severity \in Recognized
                  THEN RowOf(name)[entry.severity]
                  ELSE RowOf(name).low)

\* C8 as stated: a type that contains a vocabulary name (compared in lower
\* case) is priced with that name's rate row; a type that contains no
\* vocabulary name, or a finding without a type key, is priced with "other".
C8_EveryContainedNamePrices ==
    DefectReturned =>
        \A i \in 1..Len(call.issues) :
            IF "type" \in DOMAIN call.issues[i]
            THEN LET t == str_lower(call.issues[i].type[1])
                 IN  /\ \A k \in ContainedNames(t) :
                           PricedWithRow(result.breakdown[i], VocabularyOrder[k])
                     /\ ContainedNames(t) = {} => PricedWithRow(result.breakdown[i], "other")
            ELSE PricedWithRow(result.breakdown[i], "other")

\* C8 amended: a type that contains one or more vocabulary names (compared in
\* lower case) is priced with the row of the first of them in table order; a
\* type that contains none, or a finding without a type key, is priced with
\* "other".
C8_FirstContainedNamePrices ==
    DefectReturned =>
        \A i \in 1..Len(call.issues) :
            IF "type" \in DOMAIN call.issues[i]
            THEN PricedWithRow(result.breakdown[i],
                               FirstContained(str_lower(call.issues[i].type[1])))
            ELSE PricedWithRow(result.breakdown[i], "other")

\* A type that contains two vocabulary names is priced with the one that
\* comes first in the table ("scratches"), with a severity given in capitals.
C8_Witness ==
    /\ DefectReturned
    /\ Len(call.issues) = 1
    /\ call.issues[1] = [type |-> <<"cracks and scratches">>, severity |-> <<"HIGH">>]
    /\ result.breakdown[1].rate = 8

\* A finding's severity is absent or is a string other than low/medium/high
\* in any letter case.
SeverityUnrecognized(issue) ==
    \/ "severity" \notin DOMAIN issue
    \/ /\ issue.severity # <<>>
       /\ str_lower(issue.severity[1]) \notin Recognized

AgeReturned == call.method = "calculate_age_depreciation" /\ result.status = "ok"

\* The age table of the specification, bucket 0 first.
AgeTable == <<15, 15, 25, 35, 43, 50, 55, 60>>

MaxCalls == 3           \* calls made in one behaviour

\* Mutant of defect_rates_after: the default rate of an unrecognized severity
\* is looked up with setdefault(), which stores it in the table row.
defect_rates_after_setdefault(issues) ==
    IF issues = <<>> \/ issue_raises(issues[1]) THEN defect_rates
    ELSE LET entry == breakdown_entry(issues[1])
             i == CHOOSE j \in 1..Len(defect_rates) :
                      defect_rates[j].category = rate_category_of(entry.type)
         IN  IF entry.severity \in DOMAIN defect_rates[i].rates THEN defect_rates
             ELSE [defect_rates EXCEPT ![i].rates = @ @@ (entry.severity :> @["low"])]

\* self.defect_rates once calculate_defect_depreciation(issues) has run: the
\* method only reads the table.
defect_rates_after(issues) == defect_rates

\* self.age_depreciation_map once calculate_age_depreciation(years) has run:
\* the method only reads the map.
age_depreciation_map_after(years) == age_depreciation_map

\* The caller's issue list once the call has run: the method only iterates
\* over it and builds a new breakdown list.
issues_after(issues) == issues

RepeatIssueLists ==
    { <<>>,
      <<[type |-> <<"cracks">>, severity |-> <<"high">>]>>,
      <<[type |-> <<"Dents">>, severity |-> <<"severe">>],
        [type |-> <<"broken parts">>, severity |-> <<"high">>]>> }

RepeatArguments ==
    {[base_price |-> bp, years |-> y, issues |-> is] :
        bp \in {<<10000>>}, y \in {0, 10 * YearUnit}, is \in RepeatIssueLists}
    \cup {[base_price |-> <<>>, years |-> 0, issues |-> <<>>]}

\* A call of calculate_final_price on instance number n.
RepeatCallOf(n, args) ==
    [method |-> "calculate_final_price", instance |-> n,
     base_price |-> args.base_price, years |-> args.years, issues |-> args.issues]

ArgumentsOf(c) == [base_price |-> c.base_price, years |-> c.years, issues |-> c.issues]

RepeatInit ==
    /\ age_depreciation_map = InitAgeDepreciationMap
    /\ defect_rates = InitDefectRates
    /\ call \in {RepeatCallOf(1, args) : args \in RepeatArguments}
    /\ result = Pending
    /\ history = <<>>
    /\ session_state = InitSessionState

\* The call in progress runs to its return.
RepeatReturn ==
    /\ result = Pending
    /\ result' = calculate_final_price(call.base_price, call.years, call.issues)
    /\ age_depreciation_map' =
          (IF not_base_price(call.base_price) THEN age_depreciation_map
           ELSE age_depreciation_map_after(call.years))
    /\ defect_rates' =
          (IF not_base_price(call.base_price) THEN defect_rates
           ELSE defect_rates_after(call.issues))
    /\ call' = [call EXCEPT !.issues =
                   IF not_base_price(call.base_price) THEN @ ELSE issues_after(@)]
    /\ UNCHANGED <<history, session_state>>

\* The caller makes another call on the same calculator.
RepeatCallSameInstance ==
    /\ result # Pending
    /\ Len(history) + 1 < MaxCalls
    /\ \E args \in RepeatArguments : call' = RepeatCallOf(call.instance, args)
    /\ result' = Pending
    /\ history' = Append(history, [call |-> call, result |-> result])
    /\ UNCHANGED <<age_depreciation_map, defect_rates, session_state>>

\* The caller constructs a new PriceCalculator and calls it.
RepeatCallNewInstance ==
    /\ result # Pending
    /\ Len(history) + 1 < MaxCalls
    /\ \E args \in RepeatArguments : call' = RepeatCallOf(call.instance + 1, args)
    /\ result' = Pending
    /\ history' = Append(history, [call |-> call, result |-> result])
    /\ age_depreciation_map' = InitAgeDepreciationMap
    /\ defect_rates' = InitDefectRates
    /\ UNCHANGED session_state

RepeatNext == RepeatReturn \/ RepeatCallSameInstance \/ RepeatCallNewInstance

RepeatSpec == RepeatInit /\ [][RepeatNext]_vars

C12_Scenario3 ==
    (call = Scenario3Call /\ result # Pending) =>
        /\ result.status = "ok"
        /\ result.age_depreciation.rate = 60
        /\ SumRates(result.defect_depreciation.breakdown) = 100
        /\ result.defect_depreciation.rate = 50
        /\ result.total_depreciation_rate = 90
        /\ result.final_price = 1000 * 100

\* The call of scenario 3 has returned.
C12_Witness == call = Scenario3Call /\ result # Pending /\ result.status = "ok"

\* C13: scenario 2: base_price 10000, 0 years and one "cracks" finding of
\* severity "high" give age rate 0.15, defect rate 0.35,
\* total_depreciation_rate 0.50 and final_price 5000.
C13_Scenario2 ==
    (call = Scenario2Call /\ result # Pending) =>
        /\ result.status = "ok"
        /\ result.age_depreciation.rate = 15
        /\ result.defect_depreciation.rate = 35
        /\ result.total_depreciation_rate = 50
        /\ result.final_price = 5000 * 100

\* The call of scenario 2 has returned with its single finding priced.
C13_Witness ==
    /\ call = Scenario2Call
    /\ result # Pending
    /\ Len(result.defect_depreciation.breakdown) = 1

(***************************************************************************)
(* Part 3: duplicate detection, src/validation_helpers.py.                 *)
(*                                                                         *)
(* An uploaded file is represented by its bytes (a number that identifies  *)
(* the content).  A perceptual hash is the set of the positions of its 1   *)
(* bits; the difference of two hashes is their Hamming distance.  The dict *)
(* uploaded_files is the sequence of its items in insertion order.         *)
(***************************************************************************)
MaxDupViews == 3        \* most views passed to find_duplicates

\* threshold=5 in the signature of find_duplicates.
DefaultThreshold == 5

\* The perceptual hashes of the sample images; images 1 and 2 differ in
\* their bytes only.
SampleHashes == << {}, {}, 1..5, 1..6, 1..12 >>

\* imagehash.phash(Image.open(image_file).convert("RGB"))
compute_phash(file) == SampleHashes[file.bytes]

\* abs(h - ph): the number of bits in which two hashes differ.
hash_distance(h, ph) == Cardinality((h \ ph) \cup (ph \ h))

\* Mutant of is_duplicate: "<" written for "<=".
is_duplicate_strict(h, ph, threshold) == hash_distance(h, ph) < threshold

\* abs(h - ph) <= threshold
is_duplicate(h, ph, threshold) == hash_distance(h, ph) <= threshold

\* The loop "for pv, ph in hashes.items()" from position j on: the pairs it
\* appends to duplicates.
RECURSIVE inner_loop(_, _, _, _, _)
inner_loop(view, h, hashes, j, threshold) ==
    IF j > Len(hashes) THEN <<>>
    ELSE (IF is_duplicate(h, hashes[j].hash, threshold)
          THEN << <<view, hashes[j].view>> >> ELSE <<>>)
         \o inner_loop(view, h, hashes, j + 1, threshold)

\* The same loop leaving at its first match.
RECURSIVE inner_loop_break(_, _, _, _, _)
inner_loop_break(view, h, hashes, j, threshold) ==
    IF j > Len(hashes) THEN <<>>
    ELSE IF is_duplicate(h, hashes[j].hash, threshold)
         THEN << <<view, hashes[j].view>> >>
         ELSE inner_loop_break(view, h, hashes, j + 1, threshold)

\* Mutant of new_pairs: the inner loop stops at the first duplicate found.
new_pairs_first_only(view, h, hashes, threshold) ==
    inner_loop_break(view, h, hashes, 1, threshold)

\* The pairs one view adds to duplicates.
new_pairs(view, h, hashes, threshold) == inner_loop(view, h, hashes, 1, threshold)

\* hashes[view] = h
hashes_put(hashes, view, h) ==
    IF \E j \in 1..Len(hashes) : hashes[j].view = view
    THEN [j \in 1..Len(hashes) |->
             IF hashes[j].view = view THEN [view |-> view, hash |-> h] ELSE hashes[j]]
    ELSE Append(hashes, [view |-> view, hash |-> h])

\* Mutant of dup_step: the hash is stored before the comparisons.
dup_step_store_first(view, h, hashes, duplicates, threshold) ==
    [hashes |-> hashes_put(hashes, view, h),
     duplicates |-> duplicates \o new_pairs(view, h, hashes_put(hashes, view, h), threshold)]

\* One iteration of the outer loop: compare with the hashes seen so far,
\* then store the hash.
dup_step(view, h, hashes, duplicates, threshold) ==
    [hashes |-> hashes_put(hashes, view, h),
     duplicates |-> duplicates \o new_pairs(view, h, hashes, threshold)]

\* The loop "for view, file in uploaded_files.items()" from position i on.
RECURSIVE outer_loop(_, _, _, _, _)
outer_loop(uploaded_files, i, hashes, duplicates, threshold) ==
    IF i > Len(uploaded_files) THEN duplicates
    ELSE LET step == dup_step(uploaded_files[i].view,
                              compute_phash(uploaded_files[i].file),
                              hashes, duplicates, threshold)
         IN  outer_loop(uploaded_files, i + 1, step.hashes, step.duplicates, threshold)

find_duplicates(uploaded_files, threshold) ==
    [status |-> "ok", duplicates |-> outer_loop(uploaded_files, 1, <<>>, <<>>, threshold)]

(***************************************************************************)
(* Inputs of find_duplicates.                                              *)
(***************************************************************************)
DupViewNames ==
    {"Screen on (front, open)", "Keyboard & trackpad", "Top lid (closed)", "Left side ports"}

SampleFiles == {[bytes |-> b] : b \in 1..Len(SampleHashes)}

\* The dicts with at most n items: sequences of items with distinct keys.
DictsUpTo(keys, values, n) ==
    {d \in SeqsUpTo([view : keys, file : values], n) :
        \A i, j \in 1..Len(d) : i # j => d[i].view # d[j].view}

DupCalls ==
    {[method |-> "find_duplicates", uploaded_files |-> d, threshold |-> t] :
        d \in DictsUpTo(DupViewNames, SampleFiles, MaxDupViews),
        t \in {0, DefaultThreshold}}

DupInit ==
    /\ age_depreciation_map = InitAgeDepreciationMap
    /\ defect_rates = InitDefectRates
    /\ call \in DupCalls
    /\ result = Pending
    /\ history = <<>>
    /\ session_state = InitSessionState

FindDuplicatesCall ==
    /\ result = Pending
    /\ call.method = "find_duplicates"
    /\ result' = find_duplicates(call.uploaded_files, call.threshold)
    /\ UNCHANGED <<age_depreciation_map, defect_rates, call, history, session_state>>

DupNext == FindDuplicatesCall

DupSpec == DupInit /\ [][DupNext]_vars

(***************************************************************************)
(* Properties of find_duplicates.                                          *)
(***************************************************************************)
DupReturned == call.method = "find_duplicates" /\ result.status = "ok"

\* The unordered pair {a, b} is in a list of pairs, in either order.
Flagged(duplicates, a, b) ==
    \E k \in 1..Len(duplicates) : duplicates[k] = <<a, b>> \/ duplicates[k] = <<b, a>>

\* The number of bits in which the hashes of items i and j differ.
ItemDistance(d, i, j) ==
    Cardinality((SampleHashes[d[i].file.bytes] \ SampleHashes[d[j].file.bytes])
                \cup (SampleHashes[d[j].file.bytes] \ SampleHashes[d[i].file.bytes]))

Reversed(d) == [i \in 1..Len(d) |-> d[Len(d) + 1 - i]]

\* C14: for any two views A and B the unordered pair {A,B} is in the result
\* iff the Hamming distance of their hashes is <= threshold, whatever the
\* insertion order and whatever other views are present; in particular the
\* dict with its items in reverse order flags the same unordered pairs.
C14_SymmetricOrderIndependent ==
    DupReturned =>
        LET d == call.uploaded_files
            reversed == find_duplicates(Reversed(d), call.threshold).duplicates
        IN  \A i, j \in 1..Len(d) :
                i # j =>
                    /\ Flagged(result.duplicates, d[i].view, d[j].view)
                          <=> (ItemDistance(d, i, j) <= call.threshold)
                    /\ Flagged(result.duplicates, d[i].view, d[j].view)
                          <=> Flagged(reversed, d[i].view, d[j].view)

\* Three views, one pair at exactly the threshold distance and flagged,
\* another pair one bit beyond it and not flagged.
C14_Witness ==
    /\ DupReturned
    /\ call.threshold = DefaultThreshold
    /\ Len(call.uploaded_files) = 3
    /\ \E i, j \in 1..3 :
          /\ i < j
          /\ ItemDistance(call.uploaded_files, i, j) = DefaultThreshold
          /\ Flagged(result.duplicates, call.uploaded_files[i].view, call.uploaded_files[j].view)
    /\ \E i, j \in 1..3 :
          /\ i > j
          /\ ItemDistance(call.uploaded_files, i, j) = DefaultThreshold + 1
          /\ ~Flagged(result.duplicates, call.uploaded_files[i].view, call.uploaded_files[j].view)

\* Items a, b, c of a dict form a chain: a near b, b near c, a not near c.
Chain(d, t, a, b, c) ==
    /\ a # b /\ b # c /\ a # c
    /\ ItemDistance(d, a, b) <= t
    /\ ItemDistance(d, b, c) <= t
    /\ ItemDistance(d, a, c) > t

\* C15: with views A, B, C where distance(A,B) <= threshold, distance(B,C) <=
\* threshold and distance(A,C) > threshold, the result contains the pairs
\* {A,B} and {B,C} and does not contain {A,C}.
C15_NoTransitiveClosure ==
    DupReturned =>
        LET d == call.uploaded_files
        IN  \A a, b, c \in 1..Len(d) :
                Chain(d, call.threshold, a, b, c) =>
                    /\ Flagged(result.duplicates, d[a].view, d[b].view)
                    /\ Flagged(result.duplicates, d[b].view, d[c].view)
                    /\ ~Flagged(result.duplicates, d[a].view, d[c].view)

\* A chain whose middle view is inserted last, so that one pass of the inner
\* loop finds both pairs.
C15_Witness ==
    /\ DupReturned
    /\ Len(call.uploaded_files) = 3
    /\ Chain(call.uploaded_files, call.threshold, 1, 3, 2)
    /\ Len(result.duplicates) = 2

\* C16: in the result every unordered pair of distinct views appears at most
\* once and no view is paired with itself; two uploaded views with identical
\* image bytes yield exactly one pair.
C16_PairsOnce ==
    DupReturned =>
        /\ \A k \in 1..Len(result.duplicates) :
              result.duplicates[k][1] # result.duplicates[k][2]
        /\ \A k, l \in 1..Len(result.duplicates) :
              k # l =>
                  /\ result.duplicates[k] # result.duplicates[l]
                  /\ result.duplicates[k] #
                        <<result.duplicates[l][2], result.duplicates[l][1]>>
        /\ \A i, j \in 1..Len(call.uploaded_files) :
              (i # j /\ call.uploaded_files[i].file.bytes = call.uploaded_files[j].file.bytes)
                  => Cardinality({k \in 1..Len(result.duplicates) :
                         \/ result.duplicates[k] =
                               <<call.uploaded_files[i].view, call.uploaded_files[j].view>>
                         \/ result.duplicates[k] =
                               <<call.uploaded_files[j].view, call.uploaded_files[i].view>>}) = 1

\* Scenario 4: two views with identical bytes, one pair.
C16_Witness ==
    /\ DupReturned
    /\ Len(call.uploaded_files) = 2
    /\ call.uploaded_files[1].file = call.uploaded_files[2].file
    /\ Len(result.duplicates) = 1
    /\ result.duplicates[1] = <<call.uploaded_files[2].view, call.uploaded_files[1].view>>

(***************************************************************************)
(* Part 4: view classification, clip_view_check in src/clip_utils.py, with *)
(* its tables in src/config.py.                                            *)
(*                                                                         *)
(* Margins and logits are integers in thousandths.  An image is            *)
(* represented by the logits the scoring backend gives it against the      *)
(* label set of the view it is checked for.  Each invocation of the        *)
(* backend is appended to history.  The entry "prob" of the info dict (a   *)
(* softmax value that no decision reads) is not represented.               *)
(***************************************************************************)
MaxLogitSteps == 3      \* logit values tried around each required margin

\* Thousandths in one unit of margin.
MarginUnit == 1000

PRODUCT_INSPECTION_VIEWS ==
    [Laptop |-> <<"Screen on (front, open)", "Keyboard & trackpad", "Top lid (closed)",
                  "Left side ports", "Right side ports", "Bottom panel">>,
     Mobile |-> <<"Front screen", "Back panel", "Left side (buttons)",
                  "Right side (buttons)", "Bottom edge (charging port)", "Camera close-up">>]

CONFIG ==
    [Laptop |-> [min_width |-> 800, min_height |-> 600, required_margin |-> 600],
     Mobile |-> [min_width |-> 400, min_height |-> 300, required_margin |-> 300]]

VIEW_REQUIRED_MARGINS ==
    ("Screen on (front, open)" :> 350) @@ ("Keyboard & trackpad" :> 100) @@
    ("Top lid (closed)" :> 150) @@ ("Bottom panel" :> 300) @@
    ("Left side ports" :> 5) @@ ("Right side ports" :> 5) @@
    ("Front screen" :> 250) @@ ("Back panel" :> 180) @@
    ("Left side (buttons)" :> 50) @@ ("Right side (buttons)" :> 50) @@
    ("Bottom edge (charging port)" :> 150) @@ ("Camera close-up" :> 200)

VIEW_CLIP_LABELS ==
    ("Screen on (front, open)" :>
        <<"a clear photo showing the full screen of an open laptop",
          "a photo of just the laptop keyboard, screen not visible",
          "a close-up portrait of a single corner or hinge of a laptop",
          "a photo of an unrelated object, blurry scene, or extremely cropped image">>) @@
    ("Keyboard & trackpad" :>
        <<"a photo showing a laptop keyboard",
          "a photo of an unrelated object or scenery">>) @@
    ("Top lid (closed)" :>
        <<"a photo of the smooth outer top lid of a closed laptop with brand logo or stickers",
          "a photo of the bottom base panel of a laptop with vents screws and rubber feet",
          "a photo of an open laptop showing keyboard or screen",
          "a photo of an unrelated object">>) @@
    ("Left side ports" :>
        <<"a photo of the left side edge of a laptop",
          "a photo of an unrelated object or scenery">>) @@
    ("Right side ports" :>
        <<"a photo of the right side edge of a laptop",
          "a photo of an unrelated object or scenery">>) @@
    ("Bottom panel" :>
        <<"a photo of the large flat bottom base panel of a laptop with screws vents and rubber feet",
          "a photo of the smooth top lid of a closed laptop with brand logo",
          "a photo of the narrow side edge of a laptop",
          "a photo of an unrelated object">>) @@
    ("Front screen" :>
        <<"a handheld mobile photo of the front screen display of a smartphone with bezels and notch",
          "a photo of the back panel of a phone with camera lenses",
          "a photo of an unrelated object">>) @@
    ("Back panel" :>
        <<"a wide photo of the complete full back panel of a smartphone showing the entire uncropped rear surface from top to bottom",
          "a cropped close-up photo showing only part of the phone or just the camera module",
          "a photo of the front screen of a smartphone",
          "a photo of an unrelated object">>) @@
    ("Left side (buttons)" :>
        <<"a photo of the side edge of a smartphone with volume or power buttons",
          "a photo of the bottom edge with charging port and speaker holes",
          "a photo of an unrelated object">>) @@
    ("Right side (buttons)" :>
        <<"a photo of the side edge of a smartphone with volume or power buttons",
          "a photo of the bottom edge with charging port and speaker holes",
          "a photo of an unrelated object">>) @@
    ("Bottom edge (charging port)" :>
        <<"a photo of the bottom edge of a smartphone showing USB charging port and speaker holes",
          "a photo of the side edge of a smartphone showing volume or power buttons",
          "a photo of an unrelated object">>) @@
    ("Camera close-up" :>
        <<"a close-up handheld photo of the rear camera lens and sensors of a smartphone",
          "a photo of an unrelated object">>)

\* torch.topk(logits, 2).values: the largest value and the second largest,
\* counted with multiplicity.
topk_first_value(logits) ==
    CHOOSE v \in {logits[i] : i \in 1..Len(logits)} :
        \A i \in 1..Len(logits) : logits[i] <= v

topk_second_value(logits) ==
    LET first == CHOOSE i \in 1..Len(logits) : logits[i] = topk_first_value(logits)
    IN  CHOOSE v \in {logits[i] : i \in 1..Len(logits) \ {first}} :
            \A i \in 1..Len(logits) \ {first} : logits[i] <= v

\* torch.topk(logits, 2).indices[0], counted from 0: an index of the largest
\* value; which one among equal values is not determined.
topk_first_indices(logits) ==
    {i - 1 : i \in {j \in 1..Len(logits) : logits[j] = topk_first_value(logits)}}

\* float(top2.values[0] - top2.values[1])
top2_margin(logits) == topk_first_value(logits) - topk_second_value(logits)

\* The product type derived from the view name.
product_type_of(view_name) ==
    IF view_name \in {"Front screen", "Back panel", "Left side (buttons)",
                      "Right side (buttons)", "Bottom edge (charging port)",
                      "Camera close-up"}
    THEN "Mobile" ELSE "Laptop"

\* Mutant of required_margin: the per-view override is ignored.
required_margin_category_only(view_name) ==
    CONFIG[product_type_of(view_name)].required_margin

\* VIEW_REQUIRED_MARGINS.get(view_name, CONFIG[product_type]["required_margin"])
required_margin(view_name) ==
    IF view_name \in DOMAIN VIEW_REQUIRED_MARGINS
    THEN VIEW_REQUIRED_MARGINS[view_name]
    ELSE CONFIG[product_type_of(view_name)].required_margin

\* A number of hundredths written with two decimals.
two_decimals(h) ==
    ToString(h \div 100) \o "." \o ToString((h % 100) \div 10) \o ToString(h % 10)

\* f"{margin:.2f}": the margin rounded to hundredths.  A margin half way
\* between two hundredths is written as either, since the float it stands for
\* lies on one side or the other.
format_2f(margin) ==
    IF margin % 10 < 5 THEN {two_decimals(margin \div 10)}
    ELSE IF margin % 10 > 5 THEN {two_decimals(margin \div 10 + 1)}
    ELSE {two_decimals(margin \div 10), two_decimals(margin \div 10 + 1)}

\* Mutant of unregistered_view_result: an unknown view is refused.
unregistered_view_result_refused ==
    [status |-> "ok", passed |-> FALSE, reasons |-> <<"Unknown view">>, info |-> <<>>]

\* return True, [], {}
unregistered_view_result ==
    [status |-> "ok", passed |-> TRUE, reasons |-> <<>>, info |-> <<>>]

\* The reasons list, from the top index, the margin and its written form.
view_reasons(labels, view_name, top_idx, margin, margin_text) ==
    (IF top_idx # 0 THEN <<"Matching failed: " \o labels[top_idx + 1]>> ELSE <<>>)
    \o (IF margin < required_margin(view_name)
        THEN <<"Image not clear enough (Confidence margin: " \o margin_text \o ")">>
        ELSE <<>>)

\* clip_view_check for a registered view, after the backend has scored the
\* image.
scored_view_result(labels, view_name, logits, top_idx, margin_text) ==
    LET reasons == view_reasons(labels, view_name, top_idx, top2_margin(logits), margin_text)
    IN  [status |-> "ok",
         passed |-> Len(reasons) = 0,
         reasons |-> reasons,
         info |-> [predicted |-> labels[top_idx + 1], margin |-> top2_margin(logits)]]

(***************************************************************************)
(* Inputs of clip_view_check.                                              *)
(***************************************************************************)
\* View names that VIEW_CLIP_LABELS does not hold.
UnregisteredViewNames == {"", "Charger", "front screen"}

\* Logit values around the required margin of a view, so that margins below,
\* at and above it occur.
LogitValues(view_name) ==
    {0} \cup {VIEW_REQUIRED_MARGINS[view_name] - 2 + k : k \in 1..MaxLogitSteps}

ViewCalls ==
    {[method |-> "clip_view_check", image_file |-> [logits |-> l], view_name |-> v] :
        v \in UnregisteredViewNames, l \in [1..2 -> {0, 1}]}
    \cup
    UNION {{[method |-> "clip_view_check", image_file |-> [logits |-> l], view_name |-> v] :
               l \in [1..Len(VIEW_CLIP_LABELS[v]) -> LogitValues(v)]} :
           v \in DOMAIN VIEW_CLIP_LABELS}

ViewInit ==
    /\ age_depreciation_map = InitAgeDepreciationMap
    /\ defect_rates = InitDefectRates
    /\ call \in ViewCalls
    /\ result = Pending
    /\ history = <<>>
    /\ session_state = InitSessionState

\* clip_view_check(image_file, view_name)
ClipViewCheckCall ==
    /\ result = Pending
    /\ call.method = "clip_view_check"
    /\ IF call.view_name \notin DOMAIN VIEW_CLIP_LABELS
       THEN /\ result' = unregistered_view_result
            /\ UNCHANGED history
       ELSE /\ \E top_idx \in topk_first_indices(call.image_file.logits) :
               \E margin_text \in format_2f(top2_margin(call.image_file.logits)) :
                  result' = scored_view_result(VIEW_CLIP_LABELS[call.view_name],
                                call.view_name, call.image_file.logits, top_idx, margin_text)
            /\ history' = Append(history, [backend |-> "clip_logits",
                                           labels |-> VIEW_CLIP_LABELS[call.view_name]])
    /\ UNCHANGED <<age_depreciation_map, defect_rates, call, session_state>>

ViewNext == ClipViewCheckCall

ViewSpec == ViewInit /\ [][ViewNext]_vars

(***************************************************************************)
(* Properties of clip_view_check.                                          *)
(***************************************************************************)
ViewReturned == call.method = "clip_view_check" /\ result.status = "ok"

RegisteredViews ==
    {"Screen on (front, open)", "Keyboard & trackpad", "Top lid (closed)",
     "Left side ports", "Right side ports", "Bottom panel",
     "Front screen", "Back panel", "Left side (buttons)", "Right side (buttons)",
     "Bottom edge (charging port)", "Camera close-up"}

\* C17: clip_view_check with a view name that has no registered label set
\* (the empty name included) returns passed = true with an empty reasons list
\* and has not invoked the scoring backend.
C17_UnregisteredViewPasses ==
    (ViewReturned /\ call.view_name \notin RegisteredViews) =>
        /\ result.passed = TRUE
        /\ result.reasons = <<>>
        /\ history = <<>>

\* The empty view name has been checked.
C17_Witness ==
    /\ ViewReturned
    /\ call.view_name = ""
    /\ result.passed = TRUE
    /\ result.reasons = <<>>

\* The required margin as the configuration states it: the override of the
\* view when there is one, else the default of the category the view is an
\* inspection view of.
ConfiguredMargin(view_name) ==
    IF view_name \in DOMAIN VIEW_REQUIRED_MARGINS
    THEN VIEW_REQUIRED_MARGINS[view_name]
    ELSE LET category == CHOOSE c \in DOMAIN PRODUCT_INSPECTION_VIEWS :
                 \E i \in 1..Len(PRODUCT_INSPECTION_VIEWS[c]) :
                     PRODUCT_INSPECTION_VIEWS[c][i] = view_name
         IN  CONFIG[category].required_margin

\* top1 - top2 of a list of logits: the largest m such that some entry
\* exceeds every other entry by at least m.
MarginOf(logits) ==
    CHOOSE m \in 0..(2 * MarginUnit) :
        /\ \E i \in 1..Len(logits) :
              \A j \in 1..Len(logits) \ {i} : logits[i] - logits[j] >= m
        /\ ~ \E i \in 1..Len(logits) :
              \A j \in 1..Len(logits) \ {i} : logits[i] - logits[j] >= m + 1

\* The two reasons.
MatchingFailed(label) == "Matching failed: " \o label

NotClearEnough(reason, margin) ==
    \E h \in 0..(2 * MarginUnit) :
        /\ 10 * h - margin <= 5
        /\ margin - 10 * h <= 5
        /\ reason = "Image not clear enough (Confidence margin: " \o two_decimals(h) \o ")"

\* C18: for a registered view clip_view_check passes iff the top-scoring
\* label is the correct description (index 0) and the margin top1 - top2 is
\* not below the required margin (the per-view override when configured, else
\* the default of the product category); a wrong top label records a
\* "Matching failed" reason naming the predicted label, a low margin records
\* a reason with the margin value, in that order.
C18_RegisteredViewVerdict ==
    (ViewReturned /\ call.view_name \in RegisteredViews) =>
        LET labels == VIEW_CLIP_LABELS[call.view_name]
            logits == call.image_file.logits
            wrong == result.info.predicted # labels[1]
            low == MarginOf(logits) < ConfiguredMargin(call.view_name)
        IN  /\ \E i \in 1..Len(labels) :
                  /\ labels[i] = result.info.predicted
                  /\ \A j \in 1..Len(labels) : logits[j] <= logits[i]
            /\ result.passed <=> (~wrong /\ ~low)
            /\ Len(result.reasons) = (IF wrong THEN 1 ELSE 0) + (IF low THEN 1 ELSE 0)
            /\ wrong => result.reasons[1] = MatchingFailed(result.info.predicted)
            /\ low => NotClearEnough(result.reasons[Len(result.reasons)], MarginOf(logits))

\* A wrong top label with a low margin (both reasons, in order), for a view
\* whose override is below the default of its category.
C18_Witness ==
    /\ ViewReturned
    /\ call.view_name = "Front screen"
    /\ call.image_file.logits = <<0, 249, 0>>
    /\ result.passed = FALSE
    /\ result.reasons = <<"Matching failed: a photo of the back panel of a phone with camera lenses",
                          "Image not clear enough (Confidence margin: 0.25)">>

(***************************************************************************)
(* Part 5: category consistency, clip_product_check in src/clip_utils.py.  *)
(*                                                                         *)
(* Product logits are integers in halves of a unit, so that the thresholds *)
(* 1.5 and 1.0 are the integers 3 and 2.  The softmax is computed from a   *)
(* table of exponentials.  An image is represented by the logits the       *)
(* backend gives it against CLIP_PRODUCT_LABELS.  Class indices count from *)
(* 0 as in the source.  The entry "prob" of the per-view details is not    *)
(* represented.                                                            *)
(***************************************************************************)
MaxProductViews == 3    \* most views passed to clip_product_check

\* Halves of a unit in one unit of logit.
LogitUnit == 2

\* CLIP_TOP1_TOP2_MARGIN = 1.5, in halves.
CLIP_TOP1_TOP2_MARGIN == 3

\* CLIP_EXPECTED_VS_UNRELATED = 1.0, in halves.
CLIP_EXPECTED_VS_UNRELATED == 2

\* CLIP_MAX_UNRELATED_ALLOWED = 0.45, in hundredths.
CLIP_MAX_UNRELATED_ALLOWED == 45

CLIP_PRODUCT_LABELS ==
    <<"a photo of a laptop computer",
      "a photo of a smartphone",
      "a photo of an unrelated object, artwork, pattern, or scenery">>

CLIP_PRODUCT_CLASS_TO_NAME == (0 :> "Laptop") @@ (1 :> "Mobile") @@ (2 :> "Unrelated")

CATEGORY_TO_CLIP_CLASS == [Laptop |-> 0, Mobile |-> 1]

\* 10000 * e^(k/2) for k = 0, 1, ..., rounded.
ExpTable == <<10000, 16487, 27183, 44817, 73891, 121825, 200855, 331155>>

exp_half(k) == ExpTable[k + 1]

\* probs[2] > CLIP_MAX_UNRELATED_ALLOWED, with probs = softmax(logits).
unrelated_prob_too_high(logits) ==
    100 * exp_half(logits[3]) >
        CLIP_MAX_UNRELATED_ALLOWED
            * (exp_half(logits[1]) + exp_half(logits[2]) + exp_half(logits[3]))

\* The reasons recorded for one view.
product_view_reasons(logits, top_idx, expected_idx) ==
    (IF CLIP_PRODUCT_CLASS_TO_NAME[top_idx] = "Unrelated"
     THEN <<"predicted Unrelated">> ELSE <<>>)
    \o (IF top2_margin(logits) < CLIP_TOP1_TOP2_MARGIN
        THEN <<"low confidence margin">> ELSE <<>>)
    \o (IF unrelated_prob_too_high(logits)
        THEN <<"high unrelated probability">> ELSE <<>>)
    \o (IF logits[expected_idx + 1] - logits[3] < CLIP_EXPECTED_VS_UNRELATED
        THEN <<"selected category not dominant">> ELSE <<>>)

\* per_view[view] = {...}
per_view_put(per_view, view, details) ==
    IF \E j \in 1..Len(per_view) : per_view[j].view = view
    THEN [j \in 1..Len(per_view) |->
             IF per_view[j].view = view THEN [view |-> view, details |-> details]
             ELSE per_view[j]]
    ELSE Append(per_view, [view |-> view, details |-> details])

\* The loop over uploaded_files.items() from position i on; tops[i] is the
\* index torch.topk returned for view i.
RECURSIVE product_loop(_, _, _, _, _, _, _)
product_loop(uploaded_files, tops, i, expected_idx, rejected, votes, per_view) ==
    IF i > Len(uploaded_files)
    THEN [rejected |-> rejected, votes |-> votes, per_view |-> per_view]
    ELSE LET view == uploaded_files[i].view
             logits == uploaded_files[i].file.logits
             reasons == product_view_reasons(logits, tops[i], expected_idx)
             details == [top |-> CLIP_PRODUCT_CLASS_TO_NAME[tops[i]],
                         margin |-> top2_margin(logits),
                         reasons |-> reasons]
         IN  product_loop(uploaded_files, tops, i + 1, expected_idx,
                 IF reasons # <<>> THEN Append(rejected, view) ELSE rejected,
                 IF reasons # <<>> THEN votes ELSE Append(votes, tops[i]),
                 per_view_put(per_view, view, details))

\* votes.count(x)
votes_count(votes, x) == Cardinality({k \in 1..Len(votes) : votes[k] = x})

\* Mutant of majority_of: among the labels with the largest count the one
\* voted first wins.
majority_of_first_seen(votes) ==
    CHOOSE x \in {votes[k] : k \in 1..Len(votes)} :
        \A y \in {votes[k] : k \in 1..Len(votes)} :
            \/ votes_count(votes, y) < votes_count(votes, x)
            \/ /\ votes_count(votes, y) = votes_count(votes, x)
               /\ (CHOOSE k \in 1..Len(votes) : votes[k] = x /\ \A j \in 1..(k - 1) : votes[j] # x)
                      <= (CHOOSE k \in 1..Len(votes) : votes[k] = y /\ \A j \in 1..(k - 1) : votes[j] # y)

\* Mutant of majority_of: the vote of the first view decides.
majority_of_first_vote(votes) == votes[1]

\* max(set(votes), key=votes.count): the first element of the set, in its
\* iteration order, with the largest count.  CPython iterates a set of the
\* integers 0, 1, 2 in ascending order.
majority_of(votes) ==
    CHOOSE x \in {votes[k] : k \in 1..Len(votes)} :
        \A y \in {votes[k] : k \in 1..Len(votes)} :
            \/ votes_count(votes, y) < votes_count(votes, x)
            \/ (votes_count(votes, y) = votes_count(votes, x) /\ x <= y)

\* The result of the majority vote.
vote_result(votes, per_view, expected_idx) ==
    IF votes = <<>>
    THEN [status |-> "raised", error |-> "ValueError"]
    ELSE [status |-> "ok",
          is_valid |-> majority_of(votes) = expected_idx,
          predicted_category |-> CLIP_PRODUCT_CLASS_TO_NAME[majority_of(votes)],
          per_view |-> per_view]

\* Mutant of product_verdict: rejected views are left out of the vote and the
\* other views decide.
product_verdict_accepted_decide(rejected, votes, per_view, expected_idx) ==
    IF rejected # <<>> /\ votes = <<>>
    THEN [status |-> "ok", is_valid |-> FALSE,
          predicted_category |-> "Unrelated / wrong product images",
          per_view |-> per_view]
    ELSE vote_result(votes, per_view, expected_idx)

\* What clip_product_check returns after its loop.
product_verdict(rejected, votes, per_view, expected_idx) ==
    IF rejected # <<>>
    THEN [status |-> "ok", is_valid |-> FALSE,
          predicted_category |-> "Unrelated / wrong product images",
          per_view |-> per_view]
    ELSE vote_result(votes, per_view, expected_idx)

\* clip_product_check(uploaded_files, selected_category), given the index
\* torch.topk returned for each view.
clip_product_check(uploaded_files, selected_category, tops) ==
    IF selected_category \notin DOMAIN CATEGORY_TO_CLIP_CLASS
    THEN [status |-> "raised", error |-> "KeyError"]
    ELSE LET expected_idx == CATEGORY_TO_CLIP_CLASS[selected_category]
             loop == product_loop(uploaded_files, tops, 1, expected_idx, <<>>, <<>>, <<>>)
         IN  product_verdict(loop.rejected, loop.votes, loop.per_view, expected_idx)

(***************************************************************************)
(* Inputs of clip_product_check.                                           *)
(***************************************************************************)
\* Logits (laptop, smartphone, unrelated) of the sample images, in halves.
SampleLogits ==
    { <<6, 0, 0>>, <<0, 6, 0>>, <<2, 5, 0>>, <<5, 2, 0>>, <<0, 0, 6>>,
      <<5, 3, 0>>, <<1, 6, 0>>, <<6, 0, 6>>, <<5, 2, 1>> }

SelectedCategories == {"Laptop", "Mobile", "Tablet"}

\* The views the upload page asks for, in its order.
ViewsFor(selected_category) ==
    IF selected_category \in DOMAIN PRODUCT_INSPECTION_VIEWS
    THEN PRODUCT_INSPECTION_VIEWS[selected_category]
    ELSE PRODUCT_INSPECTION_VIEWS["Laptop"]

ProductCalls ==
    UNION {{[method |-> "clip_product_check",
             uploaded_files |->
                 [i \in 1..k |-> [view |-> ViewsFor(c)[i], file |-> [logits |-> l[i]]]],
             selected_category |-> c] :
               l \in [1..k -> SampleLogits]} :
           c \in SelectedCategories, k \in 0..MaxProductViews}

\* The indices torch.topk may return for the views of a dict.
TopChoices(uploaded_files) ==
    {tops \in [1..Len(uploaded_files) -> 0..2] :
        \A i \in 1..Len(uploaded_files) :
            tops[i] \in topk_first_indices(uploaded_files[i].file.logits)}

ProductInit ==
    /\ age_depreciation_map = InitAgeDepreciationMap
    /\ defect_rates = InitDefectRates
    /\ call \in ProductCalls
    /\ result = Pending
    /\ history = <<>>
    /\ session_state = InitSessionState

\* clip_product_check(uploaded_files, selected_category)
ClipProductCheckCall ==
    /\ result = Pending
    /\ call.method = "clip_product_check"
    /\ \E tops \in TopChoices(call.uploaded_files) :
          result' = clip_product_check(call.uploaded_files, call.selected_category, tops)
    /\ history' =
          IF call.selected_category \notin DOMAIN CATEGORY_TO_CLIP_CLASS
          THEN history
          ELSE history \o [i \in 1..Len(call.uploaded_files) |->
                              [backend |-> "clip_logits", labels |-> CLIP_PRODUCT_LABELS]]
    /\ UNCHANGED <<age_depreciation_map, defect_rates, call, session_state>>

ProductNext == ClipProductCheckCall

ProductSpec == ProductInit /\ [][ProductNext]_vars

(***************************************************************************)
(* Properties of clip_product_check.                                       *)
(***************************************************************************)
ProductCalled == call.method = "clip_product_check" /\ result # Pending

KnownCategory == call.selected_category \in {"Laptop", "Mobile"}

ExpectedLogit(logits) == IF call.selected_category = "Laptop" THEN logits[1] ELSE logits[2]

\* The four rejection conditions of one view, from its logits and the label
\* recorded as its top label.
TopIsUnrelated(details) == details.top = "Unrelated"

LowMargin(logits) == MarginOf(logits) * 2 < 3 * LogitUnit

HighUnrelated(logits) ==
    100 * exp_half(logits[3]) > 45 * (exp_half(logits[1]) + exp_half(logits[2]) + exp_half(logits[3]))

NotDominant(logits) == ExpectedLogit(logits) - logits[3] < LogitUnit

Has(reasons, text) == \E k \in 1..Len(reasons) : reasons[k] = text

ViewRejected(i) ==
    \/ TopIsUnrelated(result.per_view[i].details)
    \/ LowMargin(call.uploaded_files[i].file.logits)
    \/ HighUnrelated(call.uploaded_files[i].file.logits)
    \/ NotDominant(call.uploaded_files[i].file.logits)

\* C19: a view is rejected (has reasons) iff at least one of the four
\* conditions holds -- top label Unrelated, top1 - top2 margin < 1.5,
\* Unrelated probability > 0.45, expected logit minus Unrelated logit < 1.0 --
\* each condition recording its own reason; and if any view is rejected the
\* check returns is_valid = false with the reason "Unrelated / wrong product
\* images", whatever the other views voted.
C19_AnyRejectedViewFails ==
    (ProductCalled /\ KnownCategory /\ Len(call.uploaded_files) > 0) =>
        /\ result.status = "ok"
        /\ Len(result.per_view) = Len(call.uploaded_files)
        /\ \A i \in 1..Len(call.uploaded_files) :
              LET details == result.per_view[i].details
                  logits == call.uploaded_files[i].file.logits
              IN  /\ result.per_view[i].view = call.uploaded_files[i].view
                  /\ details.reasons # <<>> <=> ViewRejected(i)
                  /\ Has(details.reasons, "predicted Unrelated") <=> TopIsUnrelated(details)
                  /\ Has(details.reasons, "low confidence margin") <=> LowMargin(logits)
                  /\ Has(details.reasons, "high unrelated probability") <=> HighUnrelated(logits)
                  /\ Has(details.reasons, "selected category not dominant") <=> NotDominant(logits)
        /\ (\E i \in 1..Len(call.uploaded_files) : ViewRejected(i)) =>
              /\ result.is_valid = FALSE
              /\ result.predicted_category = "Unrelated / wrong product images"

\* Three laptop views, the first two accepted with a vote for Laptop, the
\* third rejected on the margin alone: the check fails.
C19_Witness ==
    /\ ProductCalled
    /\ call.selected_category = "Laptop"
    /\ Len(call.uploaded_files) = 3
    /\ call.uploaded_files[1].file.logits = <<6, 0, 0>>
    /\ call.uploaded_files[2].file.logits = <<6, 0, 0>>
    /\ call.uploaded_files[3].file.logits = <<5, 3, 0>>
    /\ result.status = "ok"
    /\ result.per_view[3].details.reasons = <<"low confidence margin">>
    /\ result.is_valid = FALSE

\* The class index whose logit exceeds the others (accepted views have one).
TopClass(logits) ==
    CHOOSE x \in 0..2 : \A y \in 0..2 : logits[y + 1] <= logits[x + 1]

\* The number of views whose top label is class x.
TopVotes(x) ==
    Cardinality({i \in 1..Len(call.uploaded_files) :
                    TopClass(call.uploaded_files[i].file.logits) = x})

\* C20: when no view is rejected, the predicted category is the name of a
\* label with the most per-view top-label votes (the one such label when
\* there is only one), and is_valid is true iff that label is the expected
\* category.
C20_MajorityDecides ==
    (ProductCalled /\ KnownCategory /\ Len(call.uploaded_files) > 0
        /\ result.status = "ok"
        /\ \A i \in 1..Len(call.uploaded_files) : ~ViewRejected(i)) =>
        \E x \in 0..2 :
            /\ \A y \in 0..2 : TopVotes(y) <= TopVotes(x)
            /\ result.predicted_category = CLIP_PRODUCT_CLASS_TO_NAME[x]
            /\ result.is_valid <=> (CLIP_PRODUCT_CLASS_TO_NAME[x] = call.selected_category)

\* No view rejected, one vote for Mobile then two for Laptop, Mobile
\* expected: the majority is Laptop and the check fails.
C20_Witness ==
    /\ ProductCalled
    /\ call.selected_category = "Mobile"
    /\ Len(call.uploaded_files) = 3
    /\ call.uploaded_files[1].file.logits = <<0, 6, 0>>
    /\ call.uploaded_files[2].file.logits = <<5, 2, 0>>
    /\ call.uploaded_files[3].file.logits = <<5, 2, 0>>
    /\ result.status = "ok"
    /\ result.is_valid = FALSE
    /\ result.predicted_category = "Laptop"

\* No view is rejected and the classes x and y, x # y, both have the largest
\* number of votes.
TiedVote(x, y) ==
    /\ ProductCalled /\ KnownCategory /\ Len(call.uploaded_files) > 0
    /\ result.status = "ok"
    /\ \A i \in 1..Len(call.uploaded_files) : ~ViewRejected(i)
    /\ x # y
    /\ TopVotes(x) = TopVotes(y)
    /\ \A z \in 0..2 : TopVotes(z) <= TopVotes(x)

\* The first view, in iteration order, whose top label is class x.
FirstSeen(x) ==
    CHOOSE i \in 1..Len(call.uploaded_files) :
        /\ TopClass(call.uploaded_files[i].file.logits) = x
        /\ \A j \in 1..(i - 1) : TopClass(call.uploaded_files[j].file.logits) # x

\* C21 as stated: when two labels have the same number of votes, the label
\* voted by the earliest view in iteration order is the predicted category.
C21_FirstSeenWinsTie ==
    \A x, y \in 0..2 :
        (TiedVote(x, y) /\ FirstSeen(x) < FirstSeen(y)) =>
            result.predicted_category = CLIP_PRODUCT_CLASS_TO_NAME[x]

\* C21 amended: when two labels have the same number of votes, the label
\* with the smaller class index (Laptop before Mobile) is the predicted
\* category, whatever the order of the views.
C21_LowerIndexWinsTie ==
    \A x, y \in 0..2 :
        (TiedVote(x, y) /\ x < y) =>
            /\ result.predicted_category = CLIP_PRODUCT_CLASS_TO_NAME[x]
            /\ result.is_valid <=> (CLIP_PRODUCT_CLASS_TO_NAME[x] = call.selected_category)

\* A tie in which the first view voted Mobile: Laptop is predicted.
C21_Witness ==
    /\ TiedVote(0, 1)
    /\ FirstSeen(1) < FirstSeen(0)
    /\ call.selected_category = "Mobile"
    /\ result.predicted_category = "Laptop"
    /\ result.is_valid = FALSE

(***************************************************************************)
(* Part 6: the damage detector boundary, analyze_damage_with_gemini in     *)
(* src/gemini_utils.py.                                                    *)
(*                                                                         *)
(* The external service is represented by what one call of it does: it     *)
(* raises, or it answers with a text.  A parsed JSON value is a record     *)
(* with its Python type and its content.  Messages shown with st.warning   *)
(* and st.error are appended to history.                                   *)
(***************************************************************************)
\* The code fence of three backquotes.  A backquote cannot be written in a
\* string of this module: the character ~ stands for it in every text.
Fence == "~~~"

is_space(c) == c \in {" ", "\n", "\t", "\r"}

\* The substring sub occurs in s at position i (counted from 1).
starts_at(s, i, sub) ==
    /\ i >= 1
    /\ i + Len(sub) - 1 <= Len(s)
    /\ SubSeq(s, i, i + Len(sub) - 1) = sub

\* The position after the whitespace run \s* that starts at position i.
skip_spaces(s, i) ==
    CHOOSE j \in i..(Len(s) + 1) :
        /\ \A k \in i..(j - 1) : is_space(SubSeq(s, k, k))
        /\ j = Len(s) + 1 \/ ~is_space(SubSeq(s, j, j))

\* str.strip()
str_strip(s) ==
    IF \A k \in 1..Len(s) : is_space(SubSeq(s, k, k)) THEN ""
    ELSE LET first == CHOOSE i \in 1..Len(s) :
                 /\ ~is_space(SubSeq(s, i, i))
                 /\ \A k \in 1..(i - 1) : is_space(SubSeq(s, k, k))
             last == CHOOSE j \in 1..Len(s) :
                 /\ ~is_space(SubSeq(s, j, j))
                 /\ \A k \in (j + 1)..Len(s) : is_space(SubSeq(s, k, k))
         IN  SubSeq(s, first, last)

\* Where the group of the fenced-object pattern (fence, optional json,
\* whitespace, shortest object, whitespace, fence) begins when the pattern is
\* tried at position p.
fence_group_start(text, p) ==
    skip_spaces(text, IF starts_at(text, p + 3, "json") THEN p + 7 ELSE p + 3)

\* The ends r of the group for which the rest of the pattern matches.
fence_group_ends(text, p) ==
    {r \in (fence_group_start(text, p) + 1)..Len(text) :
        /\ SubSeq(text, r, r) = "}"
        /\ starts_at(text, skip_spaces(text, r + 1), Fence)}

\* The pattern matches at position p.
fence_match_at(text, p) ==
    /\ starts_at(text, p, Fence)
    /\ starts_at(text, fence_group_start(text, p), "{")
    /\ fence_group_ends(text, p) # {}

\* re.search of the fenced-object pattern with re.DOTALL: group(1) of the
\* leftmost match, with the shortest group; <<>> when there is none.
search_fenced_object(text) ==
    IF \E p \in 1..Len(text) : fence_match_at(text, p)
    THEN LET p == CHOOSE i \in 1..Len(text) :
                 fence_match_at(text, i) /\ \A k \in 1..(i - 1) : ~fence_match_at(text, k)
             r == CHOOSE e \in fence_group_ends(text, p) :
                 \A f \in fence_group_ends(text, p) : e <= f
         IN  <<SubSeq(text, fence_group_start(text, p), r)>>
    ELSE <<>>

\* re.sub of a leading fence, optional json and whitespace by nothing.
strip_leading_fence(text) ==
    IF starts_at(text, 1, Fence)
    THEN SubSeq(text,
                skip_spaces(text, IF starts_at(text, 4, "json") THEN 8 ELSE 4),
                Len(text))
    ELSE text

\* re.sub of whitespace and a fence at the end by nothing, for a text that
\* does not end in a newline.
strip_trailing_fence(text) ==
    IF starts_at(text, Len(text) - 2, Fence)
    THEN LET keep == CHOOSE j \in 0..(Len(text) - 3) :
                 /\ \A k \in (j + 1)..(Len(text) - 3) : is_space(SubSeq(text, k, k))
                 /\ j = 0 \/ ~is_space(SubSeq(text, j, j))
         IN  SubSeq(text, 1, keep)
    ELSE text

\* re.search of an object with re.DOTALL: from the first opening brace to
\* the last closing brace after it; <<>> when there is none.
search_object(text) ==
    IF \E i \in 1..Len(text) :
           /\ SubSeq(text, i, i) = "{"
           /\ \E j \in (i + 1)..Len(text) : SubSeq(text, j, j) = "}"
    THEN LET i == CHOOSE a \in 1..Len(text) :
                 /\ SubSeq(text, a, a) = "{"
                 /\ \A k \in 1..(a - 1) : SubSeq(text, k, k) # "{"
             j == CHOOSE b \in 1..Len(text) :
                 /\ SubSeq(text, b, b) = "}"
                 /\ \A k \in (b + 1)..Len(text) : SubSeq(text, k, k) # "}"
         IN  <<SubSeq(text, i, j)>>
    ELSE <<>>

\* The text handed to json.loads: lines 127 to 144 without the parse.
json_candidate(response_text) ==
    LET text == str_strip(response_text)
        fenced == search_fenced_object(text)
        unfenced == IF fenced # <<>> THEN fenced[1]
                    ELSE strip_trailing_fence(strip_leading_fence(text))
        object == search_object(unfenced)
    IN  str_strip(IF object # <<>> THEN object[1] ELSE unfenced)

\* json.loads on the texts that occur: the documents that parse, with their
\* values; every other text raises JSONDecodeError.
JsonDocuments ==
    ("{\"issues\": [], \"overall_condition\": \"pristine\"}" :>
        [type |-> "dict", items |-> [issues |-> <<>>, overall_condition |-> "pristine"]]) @@
    ("{\"issues\": [], \"overall_condition\": \"good\"}" :>
        [type |-> "dict", items |-> [issues |-> <<>>, overall_condition |-> "good"]]) @@
    ("{\"issues\": [{\"type\": \"scratches\", \"severity\": \"medium\"}], \"overall_condition\": \"good\"}" :>
        [type |-> "dict",
         items |-> [issues |-> <<[type |-> <<"scratches">>, severity |-> <<"medium">>]>>,
                    overall_condition |-> "good"]]) @@
    ("{\"same_device\": true, \"confidence\": \"high\", \"reason\": \"same marks\"}" :>
        [type |-> "dict",
         items |-> [same_device |-> TRUE, confidence |-> "high", reason |-> "same marks"]]) @@
    ("{\"same_device\": false, \"confidence\": \"low\", \"reason\": \"other colour\"}" :>
        [type |-> "dict",
         items |-> [same_device |-> FALSE, confidence |-> "low", reason |-> "other colour"]]) @@
    ("{\"confidence\": \"low\"}" :> [type |-> "dict", items |-> [confidence |-> "low"]]) @@
    ("{\"issues\": [{\"type\": \"scratches\", \"severity\": \"medium\", \"location\": \"lid\", \"description\": \"visible scratches\"}], \"overall_condition\": \"good\"}" :>
        [type |-> "dict",
         items |-> [issues |-> <<[type |-> <<"scratches">>, severity |-> <<"medium">>,
                                  location |-> <<"lid">>,
                                  description |-> <<"visible scratches">>]>>,
                    overall_condition |-> "good"]]) @@
    ("{\"issues\": []}" :> [type |-> "dict", items |-> [issues |-> <<>>]]) @@
    ("{\"overall_condition\": \"good\"}" :>
        [type |-> "dict", items |-> [overall_condition |-> "good"]]) @@
    ("{}" :> [type |-> "dict", items |-> <<>>]) @@
    ("[\"issues\", \"overall_condition\"]" :>
        [type |-> "list", items |-> <<"issues", "overall_condition">>]) @@
    ("\"no issues, overall_condition good\"" :>
        [type |-> "str", value |-> "no issues, overall_condition good"]) @@
    ("\"fine\"" :> [type |-> "str", value |-> "fine"]) @@
    ("5" :> [type |-> "int", value |-> 5]) @@
    ("null" :> [type |-> "NoneType"])

json_loads(text) ==
    IF text \in DOMAIN JsonDocuments
    THEN [raised |-> "", value |-> JsonDocuments[text]]
    ELSE [raised |-> "JSONDecodeError"]

\* Python's  key in value : key membership for a dict, element membership
\* for a list, substring for a str.
py_in(key, v) ==
    CASE v.type = "dict" -> key \in DOMAIN v.items
      [] v.type = "list" -> \E k \in 1..Len(v.items) : v.items[k] = key
      [] v.type = "str" -> str_contains(key, v.value)

\*  key in value  raises TypeError for a value that is not a container.
py_in_raises(v) == v.type \notin {"dict", "list", "str"}

\* "issues" not in result or "overall_condition" not in result
invalid_structure(v) == ~py_in("issues", v) \/ ~py_in("overall_condition", v)

\* The value both except clauses return.
unknown_condition ==
    [type |-> "dict", items |-> [issues |-> <<>>, overall_condition |-> "unknown"]]

\* except json.JSONDecodeError
on_json_decode_error(view_name) ==
    [status |-> "ok", value |-> unknown_condition,
     notices |-> <<[notice |-> "warning", view |-> view_name],
                   [notice |-> "code", view |-> view_name]>>]

\* except Exception
on_exception(view_name) ==
    [status |-> "ok", value |-> unknown_condition,
     notices |-> <<[notice |-> "error", view |-> view_name]>>]

\* analyze_damage_with_gemini(image, view_name, product_type), given what the
\* service does in this call.
analyze_damage_with_gemini(service, view_name) ==
    IF service.kind = "raises"
    THEN on_exception(view_name)
    ELSE LET parsed == json_loads(json_candidate(service.text))
         IN  IF parsed.raised = "JSONDecodeError" THEN on_json_decode_error(view_name)
             ELSE IF py_in_raises(parsed.value) THEN on_exception(view_name)
             ELSE IF invalid_structure(parsed.value) THEN on_exception(view_name)
             ELSE [status |-> "ok", value |-> parsed.value, notices |-> <<>>]

(***************************************************************************)
(* Inputs of analyze_damage_with_gemini.                                   *)
(***************************************************************************)
SampleTexts ==
    { "{\"issues\": [], \"overall_condition\": \"pristine\"}",
      "~~~json {\"issues\": [{\"type\": \"scratches\", \"severity\": \"medium\"}], \"overall_condition\": \"good\"} ~~~",
      "Result: {\"issues\": [], \"overall_condition\": \"good\"} done",
      "~~~ {\"issues\": []} ~~~",
      "{\"issues\": []}",
      "{\"overall_condition\": \"good\"}",
      "{}",
      "I cannot analyze this image",
      "",
      "{\"issues\": [",
      "{\"issues\": [], \"overall_condition\": \"good\"} or {\"issues\": []}",
      "[\"issues\", \"overall_condition\"]",
      "\"no issues, overall_condition good\"",
      "\"fine\"",
      "5",
      "null",
      "~~~json\n[\"issues\", \"overall_condition\"]\n~~~",
      " {\"issues\": [], \"overall_condition\": \"pristine\"} " }

\* What one call of the service does: one of its three steps raises, or it
\* answers with a text.
ServiceOutcomes ==
    {[kind |-> "raises", at |-> a] : a \in {"GenerativeModel", "generate_content", "text"}}
    \cup {[kind |-> "text", text |-> t] : t \in SampleTexts}

DamageCalls ==
    UNION {{[method |-> "analyze_damage_with_gemini", service |-> s,
             view_name |-> PRODUCT_INSPECTION_VIEWS[c][i], product_type |-> c] :
               s \in ServiceOutcomes, i \in 1..Len(PRODUCT_INSPECTION_VIEWS[c])} :
           c \in DOMAIN PRODUCT_INSPECTION_VIEWS}

DamageInit ==
    /\ age_depreciation_map = InitAgeDepreciationMap
    /\ defect_rates = InitDefectRates
    /\ call \in DamageCalls
    /\ result = Pending
    /\ history = <<>>
    /\ session_state = InitSessionState

AnalyzeDamageCall ==
    /\ result = Pending
    /\ call.method = "analyze_damage_with_gemini"
    /\ LET outcome == analyze_damage_with_gemini(call.service, call.view_name)
       IN  /\ result' = [status |-> outcome.status, value |-> outcome.value]
           /\ history' = history \o outcome.notices
    /\ UNCHANGED <<age_depreciation_map, defect_rates, call, session_state>>

DamageNext == AnalyzeDamageCall

DamageSpec == DamageInit /\ [][DamageNext]_vars

(***************************************************************************)
(* Properties of analyze_damage_with_gemini.                               *)
(***************************************************************************)
DamageReturned == call.method = "analyze_damage_with_gemini" /\ result # Pending

\* The text the service answered is not a JSON document.
NotParseable == 
    /\ call.service.kind = "text"
    /\ json_candidate(call.service.text) \notin DOMAIN JsonDocuments

\* The text the service answered is a JSON document without an "issues" key
\* or without an "overall_condition" key.
LacksKey ==
    /\ call.service.kind = "text"
    /\ json_candidate(call.service.text) \in DOMAIN JsonDocuments
    /\ LET v == JsonDocuments[json_candidate(call.service.text)]
       IN  \/ v.type # "dict"
           \/ "issues" \notin DOMAIN v.items
           \/ "overall_condition" \notin DOMAIN v.items

UnknownCondition == [issues |-> <<>>, overall_condition |-> "unknown"]

\* C22: analyze_damage_with_gemini never propagates a failure: when the
\* service output is not parseable JSON, lacks the "issues" or
\* "overall_condition" key, or the call itself raises, the function returns
\* exactly {issues: [], overall_condition: "unknown"}.
C22_FailureGivesUnknown ==
    DamageReturned =>
        /\ result.status = "ok"
        /\ (call.service.kind = "raises" \/ NotParseable \/ LacksKey) =>
              /\ result.value.type = "dict"
              /\ result.value.items = UnknownCondition

(***************************************************************************)
(* Part 7: the same-device verifier, verify_same_device_with_gemini in     *)
(* src/gemini_utils.py.  The function has no exception handler.            *)
(***************************************************************************)
\* str.strip(chars) for a single character.
RECURSIVE strip_char(_, _)
strip_char(s, c) ==
    IF s # "" /\ SubSeq(s, 1, 1) = c THEN strip_char(SubSeq(s, 2, Len(s)), c)
    ELSE IF s # "" /\ SubSeq(s, Len(s), Len(s)) = c
         THEN strip_char(SubSeq(s, 1, Len(s) - 1), c)
         ELSE s

\* str.replace(old, ""): every occurrence of old, from the left, is removed.
RECURSIVE str_remove(_, _)
str_remove(s, old) ==
    IF s = "" THEN ""
    ELSE IF starts_at(s, 1, old) THEN str_remove(SubSeq(s, Len(old) + 1, Len(s)), old)
    ELSE SubSeq(s, 1, 1) \o str_remove(SubSeq(s, 2, Len(s)), old)

\* Lines 67 to 69: the text handed to json.loads.
verifier_candidate(response_text) ==
    IF starts_at(str_strip(response_text), 1, Fence)
    THEN str_strip(str_remove(strip_char(str_strip(response_text), SubSeq(Fence, 1, 1)), "json"))
    ELSE str_strip(response_text)

\* verify_same_device_with_gemini(images, product_type), given what the
\* service does in this call.
verify_same_device_with_gemini(service) ==
    IF service.kind = "raises"
    THEN [status |-> "raised", error |-> "Exception"]
    ELSE LET parsed == json_loads(verifier_candidate(service.text))
         IN  IF parsed.raised = "JSONDecodeError"
             THEN [status |-> "raised", error |-> "JSONDecodeError"]
             ELSE [status |-> "ok", value |-> parsed.value]

\* What one call of the verifier service does.
VerifierTexts ==
    { "{\"same_device\": true, \"confidence\": \"high\", \"reason\": \"same marks\"}",
      "~~~json\n{\"same_device\": false, \"confidence\": \"low\", \"reason\": \"other colour\"}\n~~~",
      "{\"confidence\": \"low\"}",
      "I am not sure" }

VerifierOutcomes ==
    {[kind |-> "raises", at |-> "generate_content"]}
    \cup {[kind |-> "text", text |-> t] : t \in VerifierTexts}

(***************************************************************************)
(* Part 8: the wizard, src/app.py and src/pages.                           *)
(*                                                                         *)
(* One action is one run of the script: the run a user event triggers, or  *)
(* the run st.rerun() starts.  call is the event of the latest run, result *)
(* tells how that run ended ("ok", "stopped" by st.stop(), "rerun" by      *)
(* st.rerun(), "raised" by an exception that left render()), and history   *)
(* lists the checks and external calls that run made, in order.            *)
(* session_state is a function from the keys present to their values.      *)
(* The upload page shows the first MaxWizardViews views of an inspection.  *)
(***************************************************************************)
MaxWizardViews == 2     \* views of an inspection that the upload page shows

\* st.session_state.key = value
ss_set(ss, key, value) ==
    [k \in DOMAIN ss \cup {key} |-> IF k = key THEN value ELSE ss[k]]

\* del st.session_state.key
ss_del(ss, key) == [k \in DOMAIN ss \ {key} |-> ss[k]]

\* get_inspection_views(product_type)
get_inspection_views(product_type) ==
    IF product_type \notin DOMAIN PRODUCT_INSPECTION_VIEWS
    THEN [status |-> "raised", error |-> "KeyError"]
    ELSE [status |-> "ok",
          value |-> [num_views |-> Len(PRODUCT_INSPECTION_VIEWS[product_type]),
                     views |-> PRODUCT_INSPECTION_VIEWS[product_type]]]

\* The views the upload page iterates over.
inspection_views(ss) ==
    SubSeq(ss.inspection[1].views, 1, Min(MaxWizardViews, Len(ss.inspection[1].views)))

\* The images a user can upload: the bytes (Part 3), the product logits
\* (Part 5) and whether get_cached_validation accepts the image.
WizardFiles ==
    { [bytes |-> 1, logits |-> <<5, 2, 0>>, valid |-> TRUE],
      [bytes |-> 4, logits |-> <<0, 6, 0>>, valid |-> TRUE],
      [bytes |-> 5, logits |-> <<2, 5, 0>>, valid |-> TRUE] }

\* st.session_state.uploaded_files[view] = uploaded_file
files_put(uploaded_files, view, file) ==
    IF \E j \in 1..Len(uploaded_files) : uploaded_files[j].view = view
    THEN [j \in 1..Len(uploaded_files) |->
             IF uploaded_files[j].view = view THEN [view |-> view, file |-> file]
             ELSE uploaded_files[j]]
    ELSE Append(uploaded_files, [view |-> view, file |-> file])

\* The loop of the upload page over the views, from position i on; widgets
\* gives the value of the file_uploader of each view (<<>> is None).
RECURSIVE upload_loop(_, _, _, _)
upload_loop(views, i, widgets, uploaded_files) ==
    IF i > Len(views) THEN uploaded_files
    ELSE upload_loop(views, i + 1, widgets,
                     files_put(uploaded_files, views[i], widgets[views[i]]))

\* all_valid at the end of that loop.
all_valid(views, widgets) ==
    \A i \in 1..Len(views) :
        widgets[views[i]] # <<>> /\ widgets[views[i]][1].valid

\* The values of the file_uploader widgets while the upload page is shown:
\* what the last run stored in uploaded_files.
widgets_of(ss) ==
    [v \in {ss.uploaded_files[i].view : i \in 1..Len(ss.uploaded_files)} |->
        (CHOOSE item \in {ss.uploaded_files[i] : i \in 1..Len(ss.uploaded_files)} :
            item.view = v).file]

\* The widgets of a page that was not shown in the previous run are empty.
fresh_widgets(views) == [v \in {views[i] : i \in 1..Len(views)} |-> <<>>]

\* uploaded_files with every file present, as find_duplicates and
\* clip_product_check read it.
present_files(uploaded_files) ==
    [i \in 1..Len(uploaded_files) |->
        [view |-> uploaded_files[i].view, file |-> uploaded_files[i].file[1]]]

\* Only the first view gets a result.
damage_loop_first_view(uploaded_files, detectors) ==
    <<[view |-> uploaded_files[1].view,
       analysis |-> analyze_damage_with_gemini(detectors[1], uploaded_files[1].view).value]>>

\* The damage analysis loop, lines 116 to 133.
damage_loop(uploaded_files, detectors) ==
    [i \in 1..Len(uploaded_files) |->
        [view |-> uploaded_files[i].view,
         analysis |-> analyze_damage_with_gemini(detectors[i], uploaded_files[i].view).value]]

\* Only the first view is analysed.
damage_calls_first_view(uploaded_files) ==
    SubSeq([i \in 1..Len(uploaded_files) |->
               [call |-> "analyze_damage_with_gemini", view |-> uploaded_files[i].view]],
           1, 1)

\* The calls of that loop.
damage_calls(uploaded_files) ==
    [i \in 1..Len(uploaded_files) |->
        [call |-> "analyze_damage_with_gemini", view |-> uploaded_files[i].view]]

\* The handler of the Generate Analysis button, lines 59 to 138, given the
\* indices torch.topk returns and what the services do.
generate_analysis(ss, tops, verifier, detectors) ==
    LET files == present_files(ss.uploaded_files)
        duplicates == find_duplicates(files, DefaultThreshold).duplicates
        product == clip_product_check(files, ss.product_type[1], tops)
        same_device_result == verify_same_device_with_gemini(verifier)
        calls1 == <<[call |-> "find_duplicates", returned |-> duplicates]>>
        calls2 == calls1 \o <<[call |-> "clip_product_check", returned |-> product]>>
        calls3 == calls2 \o <<[call |-> "clip_product_check", returned |-> product]>>
        calls4 == calls3 \o <<[call |-> "verify_same_device_with_gemini",
                               images |-> [i \in 1..Len(files) |-> files[i].file],
                               returned |-> same_device_result]>>
    IN  IF duplicates # <<>>
        THEN [session_state |-> ss, end |-> "stopped", calls |-> calls1]
        ELSE IF product.status = "raised"
        THEN [session_state |-> ss, end |-> "raised", calls |-> calls2]
        ELSE IF ~product.is_valid
        THEN [session_state |-> ss, end |-> "stopped", calls |-> calls2]
        ELSE IF same_device_result.status = "raised"
        THEN [session_state |-> ss, end |-> "raised", calls |-> calls4]
        ELSE IF "same_device" \notin DOMAIN same_device_result.value.items
        THEN [session_state |-> ss, end |-> "raised", calls |-> calls4]
        ELSE IF ~same_device_result.value.items.same_device
        THEN [session_state |-> ss,
              end |-> IF "reason" \in DOMAIN same_device_result.value.items
                      THEN "stopped" ELSE "raised",
              calls |-> calls4]
        ELSE IF "confidence" \notin DOMAIN same_device_result.value.items
        THEN [session_state |-> ss, end |-> "raised", calls |-> calls4]
        ELSE [session_state |->
                  ss_set(ss_set(ss, "analysis_results",
                                damage_loop(ss.uploaded_files, detectors)),
                         "step", 3),
              end |-> "rerun",
              calls |-> calls4 \o damage_calls(ss.uploaded_files)]

\* The price report of search_product_price when nothing is found, and when
\* prices are found (the fields the report page reads).
price_not_found == [price |-> <<>>, source |-> "Not Found"]

price_found(price) == [price |-> <<price>>, source |-> "Egyptian Retailers"]

\* What one call of engine.search_product_price does.
SearchOutcomes ==
    { [kind |-> "raises"],
      [kind |-> "returns", price_data |-> price_not_found],
      [kind |-> "returns", price_data |-> price_found(10000)] }

\* What one call of the report service does inside generate_ai_price_report.
ReportOutcomes == {"text"}

\* analysis.get("issues", [])
issues_of(analysis) ==
    IF "issues" \in DOMAIN analysis.items THEN analysis.items.issues ELSE <<>>

\* The display of one analysed view, lines 30 to 50, raises: the view is not
\* a key of uploaded_files, or a displayed finding lacks a key of line 49.
view_display_raises(ss, item) ==
    \/ \A j \in 1..Len(ss.uploaded_files) : ss.uploaded_files[j].view # item.view
    \/ LET issues == issues_of(item.analysis)
       IN  /\ issues # <<>>
           /\ IF Len(issues) = 1
              THEN \/ dict_get(issues[1], "description", "") = <<>>
                   \/ /\ ~str_contains("pristine",
                             str_lower(dict_get(issues[1], "description", "")[1]))
                      /\ {"type", "severity", "location", "description"}
                             \ DOMAIN issues[1] # {}
              ELSE \E k \in 1..Len(issues) :
                       {"type", "severity", "location", "description"} \ DOMAIN issues[k] # {}

\* all_detected_issues, lines 114 to 116.
RECURSIVE all_issues(_, _)
all_issues(res, i) ==
    IF i > Len(res) THEN <<>>
    ELSE issues_of(res[i].analysis) \o all_issues(res, i + 1)

\* Lines 76 to 81: the pricing keys are created when absent.
with_pricing_keys(ss) ==
    [k \in DOMAIN ss \cup {"price_data", "price_data_product", "final_ai_report"} |->
        IF k \in DOMAIN ss THEN ss[k] ELSE <<>>]

\* The search is always taken to be needed.
need_price_search_always(ss) == TRUE

\* need_price_search, lines 90 to 93.
need_price_search(ss) ==
    ss.price_data = <<>> \/ ss.price_data_product # <<ss.product_name>>

\* Lines 95 to 105: the market price search.
after_price_search(ss, search) ==
    IF ~need_price_search(ss) \/ search.kind = "raises" THEN ss
    ELSE ss_set(ss_set(ss_set(ss, "price_data", <<search.price_data>>),
                       "price_data_product", <<ss.product_name>>),
                "final_ai_report", <<>>)

\* price_data and price_data.get("price")
has_price(ss) ==
    /\ ss.price_data # <<>>
    /\ ss.price_data[1].price # <<>>
    /\ ss.price_data[1].price[1] # 0

\* generate_ai_price_report(...): the text of the service, or the error text
\* of its except clause; either is a string made from the product name and
\* the pricing result of this run.
generate_ai_price_report(product_name, pricing_results, outcome) ==
    [kind |-> IF outcome = "text" THEN "report" ELSE "error",
     product_name |-> product_name,
     final_price |-> pricing_results.final_price]

\* Report.render() from line 14 to line 213, given what the services do.
report_render(ss0, search, outcome) ==
    IF \E i \in 1..Len(ss0.analysis_results) :
           view_display_raises(ss0, ss0.analysis_results[i])
    THEN [session_state |-> ss0, end |-> "raised", calls |-> <<>>, pricing_results |-> <<>>]
    ELSE LET keyed == with_pricing_keys(ss0)
             ss == after_price_search(keyed, search)
             calls1 == IF need_price_search(keyed)
                       THEN <<[call |-> "search_product_price",
                               product_name |-> ss0.product_name]>>
                       ELSE <<>>
         IN  IF ~has_price(ss)
             THEN [session_state |-> ss, end |-> "ok", calls |-> calls1,
                   pricing_results |-> <<>>]
             ELSE LET pricing_results ==
                          calculate_final_price(ss.price_data[1].price, ss.usage_years,
                                                all_issues(ss.analysis_results, 1))
                  IN  IF pricing_results.status # "ok"
                      THEN [session_state |-> ss, end |-> "raised", calls |-> calls1,
                            pricing_results |-> <<>>]
                      ELSE IF ss.final_ai_report # <<>>
                      THEN [session_state |-> ss, end |-> "ok", calls |-> calls1,
                            pricing_results |-> <<pricing_results>>]
                      ELSE [session_state |->
                                ss_set(ss, "final_ai_report",
                                       <<generate_ai_price_report(ss.product_name,
                                             pricing_results, outcome)>>),
                            end |-> "ok",
                            calls |-> Append(calls1, [call |-> "generate_ai_price_report",
                                                      product_name |-> ss.product_name]),
                            pricing_results |-> <<pricing_results>>]

\* The handler of Start New Inspection, lines 216 to 224.
start_new_inspection(ss) ==
    ss_del(ss_set(ss_set(ss_set(ss_set(ss_set(ss, "step", 1),
                                       "uploaded_files", <<>>),
                                "analysis_results", <<>>),
                         "price_data", <<>>),
                  "price_data_product", <<>>),
           "final_ai_report")

\* The handler of Clear & Reset, lines 36 to 40 of Product_Info.py.
clear_and_reset(ss) ==
    ss_set(ss_set(ss_set(ss, "product_name", ""), "usage_years", 0), "uploaded_files", <<>>)

\* The handler of Next (Inspection Plan), lines 45 to 55 of Product_Info.py.
next_inspection_plan(ss, product_name, product_type, usage_years) ==
    IF product_name = "" THEN [session_state |-> ss, end |-> "ok"]
    ELSE IF get_inspection_views(product_type).status = "raised"
    THEN [session_state |->
              ss_set(ss_set(ss_set(ss, "product_name", product_name),
                            "product_type", <<product_type>>),
                     "usage_years", usage_years),
          end |-> "raised"]
    ELSE [session_state |->
              ss_set(ss_set(ss_set(ss_set(ss_set(ss_set(ss,
                  "product_name", product_name),
                  "product_type", <<product_type>>),
                  "usage_years", usage_years),
                  "inspection", <<get_inspection_views(product_type).value>>),
                  "uploaded_files", <<>>),
                  "step", 2),
          end |-> "rerun"]

(***************************************************************************)
(* Inputs of the wizard.                                                   *)
(***************************************************************************)
ProductNames == {"", "iPhone 13", "Dell XPS"}

WizardCategories == {"Laptop", "Mobile"}

\* Values of the usage slider, in tenths of a year.
UsageChoices == {35}

\* What the damage detector does in one Generate Analysis run (the same for
\* every view of the run).
WizardDamageOutcomes ==
    { [kind |-> "raises", at |-> "generate_content"],
      [kind |-> "text",
       text |-> "{\"issues\": [{\"type\": \"scratches\", \"severity\": \"medium\", \"location\": \"lid\", \"description\": \"visible scratches\"}], \"overall_condition\": \"good\"}"] }

WizardInit ==
    /\ age_depreciation_map = InitAgeDepreciationMap
    /\ defect_rates = InitDefectRates
    /\ call = [event |-> "open"]
    /\ result = [end |-> "ok", pricing_results |-> <<>>]
    /\ history = <<>>
    /\ session_state = InitSessionState

\* The previous run has ended and shows its page to the user.
PageShown == result.end # "rerun"

\* "Clear & Reset" on the product information page.
ClearAndReset ==
    /\ PageShown
    /\ session_state.step = 1
    /\ call' = [event |-> "clear_and_reset"]
    /\ session_state' = clear_and_reset(session_state)
    /\ result' = [end |-> "rerun", pricing_results |-> <<>>]
    /\ history' = <<>>
    /\ UNCHANGED <<age_depreciation_map, defect_rates>>

\* "Next(Inspection Plan)" on the product information page.
NextInspectionPlan ==
    /\ PageShown
    /\ session_state.step = 1
    /\ session_state.gemini_api_key # ""
    /\ \E product_name \in ProductNames, product_type \in WizardCategories,
          usage_years \in UsageChoices :
          LET run == next_inspection_plan(session_state, product_name, product_type,
                                          usage_years)
          IN  /\ session_state' = run.session_state
              /\ result' = [end |-> run.end, pricing_results |-> <<>>]
    /\ call' = [event |-> "next"]
    /\ history' = <<>>
    /\ UNCHANGED <<age_depreciation_map, defect_rates>>

\* "Back to Product Info" on the upload page.
BackToProductInfo ==
    /\ PageShown
    /\ session_state.step = 2
    /\ call' = [event |-> "back_to_product_info"]
    /\ session_state' = ss_set(session_state, "step", 1)
    /\ result' = [end |-> "rerun", pricing_results |-> <<>>]
    /\ history' = <<>>
    /\ UNCHANGED <<age_depreciation_map, defect_rates>>

\* The user puts a file into, or removes the file from, the uploader of a
\* view; the upload page is rendered with the new widget values.
UploadFile ==
    /\ PageShown
    /\ session_state.step = 2
    /\ \E i \in 1..Len(inspection_views(session_state)),
          file \in {<<>>} \cup {<<f>> : f \in WizardFiles} :
          LET view == inspection_views(session_state)[i]
              widgets == [widgets_of(session_state) EXCEPT ![view] = file]
          IN  /\ widgets_of(session_state)[view] # file
              /\ session_state' =
                    ss_set(session_state, "uploaded_files",
                           upload_loop(inspection_views(session_state), 1, widgets,
                                       session_state.uploaded_files))
    /\ call' = [event |-> "upload"]
    /\ result' = [end |-> "ok", pricing_results |-> <<>>]
    /\ history' = <<>>
    /\ UNCHANGED <<age_depreciation_map, defect_rates>>

\* "Generate Analysis" on the upload page; the button is disabled unless
\* all_valid.
GenerateAnalysis ==
    /\ PageShown
    /\ session_state.step = 2
    /\ all_valid(inspection_views(session_state), widgets_of(session_state))
    /\ \E tops \in TopChoices(present_files(session_state.uploaded_files)),
          verifier \in VerifierOutcomes,
          detector \in WizardDamageOutcomes :
          LET detectors == [i \in 1..Len(session_state.uploaded_files) |-> detector]
              run == generate_analysis(session_state, tops, verifier, detectors)
          IN  /\ session_state' = run.session_state
              /\ result' = [end |-> run.end, pricing_results |-> <<>>]
              /\ history' = run.calls
    /\ call' = [event |-> "generate_analysis"]
    /\ UNCHANGED <<age_depreciation_map, defect_rates>>

\* "Back to Upload" on the report page.
BackToUpload ==
    /\ PageShown
    /\ session_state.step = 3
    /\ call' = [event |-> "back_to_upload"]
    /\ session_state' = ss_set(session_state, "step", 2)
    /\ result' = [end |-> "rerun", pricing_results |-> <<>>]
    /\ history' = <<>>
    /\ UNCHANGED <<age_depreciation_map, defect_rates>>

\* The download button of the report page: the page is rendered again.
DownloadReport ==
    /\ result.end = "ok"
    /\ session_state.step = 3
    /\ has_price(session_state)
    /\ \E search \in SearchOutcomes, outcome \in ReportOutcomes :
          LET run == report_render(session_state, search, outcome)
          IN  /\ session_state' = run.session_state
              /\ result' = [end |-> run.end, pricing_results |-> run.pricing_results]
              /\ history' = run.calls
    /\ call' = [event |-> "download_report"]
    /\ UNCHANGED <<age_depreciation_map, defect_rates>>

\* "Start New Inspection" at the bottom of the report page: the page is
\* rendered down to the button, then the handler runs.
StartNewInspection ==
    /\ result.end = "ok"
    /\ session_state.step = 3
    /\ \E search \in SearchOutcomes, outcome \in ReportOutcomes :
          LET run == report_render(session_state, search, outcome)
          IN  /\ session_state' =
                    (IF run.end = "ok" THEN start_new_inspection(run.session_state)
                     ELSE run.session_state)
              /\ result' = [end |-> IF run.end = "ok" THEN "rerun" ELSE run.end,
                            pricing_results |-> run.pricing_results]
              /\ history' = run.calls
    /\ call' = [event |-> "start_new_inspection"]
    /\ UNCHANGED <<age_depreciation_map, defect_rates>>

\* The run st.rerun() starts: main() renders the page of the current step.
Rerun ==
    /\ result.end = "rerun"
    /\ call' = [event |-> "rerun"]
    /\ CASE session_state.step = 1 ->
              /\ session_state' = session_state
              /\ result' = [end |-> "ok", pricing_results |-> <<>>]
              /\ history' = <<>>
         [] session_state.step = 2 ->
              /\ session_state' =
                    ss_set(session_state, "uploaded_files",
                           upload_loop(inspection_views(session_state), 1,
                                       fresh_widgets(inspection_views(session_state)),
                                       session_state.uploaded_files))
              /\ result' = [end |-> "ok", pricing_results |-> <<>>]
              /\ history' = <<>>
         [] session_state.step = 3 ->
              \E search \in SearchOutcomes, outcome \in ReportOutcomes :
                  LET run == report_render(session_state, search, outcome)
                  IN  /\ session_state' = run.session_state
                      /\ result' = [end |-> run.end, pricing_results |-> run.pricing_results]
                      /\ history' = run.calls
    /\ UNCHANGED <<age_depreciation_map, defect_rates>>

WizardNext ==
    \/ ClearAndReset
    \/ NextInspectionPlan
    \/ BackToProductInfo
    \/ UploadFile
    \/ GenerateAnalysis
    \/ BackToUpload
    \/ DownloadReport
    \/ StartNewInspection
    \/ Rerun

WizardSpec == WizardInit /\ [][WizardNext]_vars

(***************************************************************************)
(* Claims about the wizard.                                                *)
(***************************************************************************)
\* A run made this call to the same-device verifier.
VerifierCall(k) == history[k].call = "verify_same_device_with_gemini"

\* C23: a failure of an external service call made during an inspection
\* (damage detector, same-device verifier, market price lookup) is caught at
\* the call boundary and replaced by a safe default result; no such failure
\* leaves the run as an exception.  For the verifier: its call returns
\* normally, and the run that made it does not end by an exception.
C23_ServiceFailureNeverEscapes ==
    \A k \in 1..Len(history) :
        VerifierCall(k) =>
            /\ history[k].returned.status = "ok"
            /\ result.end # "raised"

\* The latest run was a Generate Analysis run.
AnalysisRun == call.event = "generate_analysis"

\* The positions of the calls of one function in the latest run.
CallsOf(name) == {k \in 1..Len(history) : history[k].call = name}

\* The duplicate check of the run returned no pair, and its category check
\* passed.
NoDuplicatePair ==
    \E k \in CallsOf("find_duplicates") : history[k].returned = <<>>

CategoryPassed ==
    /\ CallsOf("clip_product_check") # {}
    /\ \A k \in CallsOf("clip_product_check") :
          history[k].returned.status = "ok" /\ history[k].returned.is_valid

\* The verifier of the run returned same_device = true.
SameDevice ==
    \E k \in CallsOf("verify_same_device_with_gemini") :
        /\ history[k].returned.status = "ok"
        /\ "same_device" \in DOMAIN history[k].returned.value.items
        /\ history[k].returned.value.items.same_device

\* The files of the upload page, in the order of uploaded_files.
FullImageSet ==
    [i \in 1..Len(session_state.uploaded_files) |-> session_state.uploaded_files[i].file[1]]

\* C24: in one Generate Analysis run the checks are ordered and gated.  The
\* verifier is called only after the duplicate check returned no pair and
\* the category check passed, then exactly once, after them, over the full
\* image set.  The damage detector is called only after the verifier
\* returned same_device = true, then exactly once per uploaded view.  When
\* an earlier check fails there is no later external call and the wizard
\* stays at step 2.
C24_ChecksOrderedAndGated ==
    AnalysisRun =>
        /\ history # <<>> /\ history[1].call = "find_duplicates"
        /\ CallsOf("find_duplicates") = {1}
        /\ (NoDuplicatePair /\ CategoryPassed) =>
              /\ Cardinality(CallsOf("verify_same_device_with_gemini")) = 1
              /\ \A v \in CallsOf("verify_same_device_with_gemini") :
                    /\ history[v].images = FullImageSet
                    /\ \A k \in CallsOf("find_duplicates") \cup CallsOf("clip_product_check") :
                          k < v
        /\ ~(NoDuplicatePair /\ CategoryPassed) =>
              /\ CallsOf("verify_same_device_with_gemini") = {}
              /\ CallsOf("analyze_damage_with_gemini") = {}
              /\ session_state.step = 2
        /\ ~NoDuplicatePair => CallsOf("clip_product_check") = {}
        /\ (SameDevice /\ result.end # "raised") =>
              /\ \A i \in 1..Len(session_state.uploaded_files) :
                    Cardinality({k \in CallsOf("analyze_damage_with_gemini") :
                        history[k].view = session_state.uploaded_files[i].view}) = 1
              /\ Cardinality(CallsOf("analyze_damage_with_gemini"))
                    = Len(session_state.uploaded_files)
              /\ \A k \in CallsOf("analyze_damage_with_gemini"),
                    v \in CallsOf("verify_same_device_with_gemini") : v < k
              /\ session_state.step = 3
        /\ ~SameDevice =>
              /\ CallsOf("analyze_damage_with_gemini") = {}
              /\ session_state.step = 2

\* A run in which every check passed and both views were analysed.
C24_Witness ==
    /\ AnalysisRun
    /\ NoDuplicatePair /\ CategoryPassed /\ SameDevice
    /\ Len(session_state.uploaded_files) >= 2
    /\ Cardinality(CallsOf("analyze_damage_with_gemini")) = Len(session_state.uploaded_files)
    /\ session_state.step = 3

\* The latest run was a reset by the user.
ResetRun ==
    \/ call.event = "clear_and_reset"
    \/ call.event = "start_new_inspection" /\ result.end = "rerun"

\* C25: whenever the user resets the inspection (Clear & Reset on the
\* product information step, Start New Inspection on the report step), no
\* uploaded view and no damage finding of the previous inspection remains in
\* the session state.
C25_ResetClearsInspection ==
    ResetRun =>
        /\ session_state.uploaded_files = <<>>
        /\ session_state.analysis_results = <<>>

\* The keys of a dict kept as a sequence of items, in insertion order.
Keys(items) == [i \in 1..Len(items) |-> items[i].view]

\* C27: whenever the wizard is at step 3, analysis_results holds exactly one
\* damage result for each key of uploaded_files and every uploaded file is
\* not None, so the lookup uploaded_files[view] of the report page succeeds
\* for each analysed view.
C27_ReportHasResultPerUpload ==
    session_state.step = 3 =>
        /\ Keys(session_state.analysis_results) = Keys(session_state.uploaded_files)
        /\ \A i \in 1..Len(session_state.uploaded_files) :
              session_state.uploaded_files[i].file # <<>>
        /\ \A i \in 1..Len(session_state.analysis_results) :
              \E j \in 1..Len(session_state.uploaded_files) :
                  session_state.uploaded_files[j].view = session_state.analysis_results[i].view

\* The report page of an inspection with at least two views is shown after
\* the user came back to it through the upload page.
C27_Witness ==
    /\ session_state.step = 3
    /\ call.event = "rerun"
    /\ result.end = "ok"
    /\ Len(session_state.analysis_results) >= 2
    /\ Keys(session_state.analysis_results) = Keys(session_state.uploaded_files)
    /\ "price_data_product" \in DOMAIN session_state
    /\ session_state.price_data_product = <<session_state.product_name>>
    /\ CallsOf("search_product_price") = {}

\* The cached AI report of a session state; <<>> when absent or None.
ReportOf(ss) == IF "final_ai_report" \in DOMAIN ss THEN ss.final_ai_report ELSE <<>>

\* No price data is cached for the product name of the session state.
NoCachedPrice(ss) ==
    \/ "price_data" \notin DOMAIN ss
    \/ ss.price_data = <<>>
    \/ ss.price_data_product # <<ss.product_name>>

\* The calls of one function in a list of calls.
Called(calls, name) == \E k \in 1..Len(calls) : calls[k].call = name

\* C28: the cached AI price report is regenerated only in a run that re-ran
\* the market price search, which happens when no price data is cached or
\* the product name differs from the one the price was fetched for (the
\* state Start New Inspection leaves).  Going back to the upload step and
\* analysing again leaves the report unchanged, and a report run that uses
\* the cached price recomputes the pricing result from the current findings
\* and leaves the report as it was.
C28_ReportRegeneratedOnlyWithSearch ==
    [][ /\ Called(history', "generate_ai_price_report") =>
              /\ NoCachedPrice(session_state)
              /\ Called(history', "search_product_price")
        /\ call'.event \in {"back_to_upload", "upload", "generate_analysis"} =>
              ReportOf(session_state') = ReportOf(session_state)
        /\ ( /\ call'.event = "rerun"
             /\ session_state.step = 3
             /\ ~NoCachedPrice(session_state)
             /\ ReportOf(session_state) # <<>> ) =>
              /\ ReportOf(session_state') = ReportOf(session_state)
              /\ result'.pricing_results =
                    <<calculate_final_price(session_state.price_data[1].price,
                                            session_state.usage_years,
                                            all_issues(session_state.analysis_results, 1))>>
      ]_vars

\* The report page after a second analysis for the same product name: the
\* pricing result was recomputed and differs from the one the cached report
\* was written for.
C28_Witness ==
    /\ session_state.step = 3
    /\ call.event = "rerun"
    /\ CallsOf("search_product_price") = {}
    /\ ReportOf(session_state) # <<>>
    /\ session_state.final_ai_report[1].product_name = session_state.product_name
    /\ result.pricing_results # <<>>
    /\ result.pricing_results[1].final_price # session_state.final_ai_report[1].final_price

(***************************************************************************)
(* Part 9: the operations that depend on the product category,             *)
(* src/validation_helpers.py and clip_product_check.  An image is given by *)
(* its size and by the variance of its Laplacian (a whole number here).    *)
(***************************************************************************)
\* The value a function returns when it ends without a return statement.
None == [type |-> "NoneType"]

\* is_blurry(image_file, product_type): neither if matches another category,
\* and the function ends without a return statement.
is_blurry(score, product_type) ==
    IF product_type = "Laptop"
    THEN [status |-> "ok",
          value |-> [type |-> "tuple", is_blur |-> score < 30, score |-> score,
                     level |-> IF score < 30 THEN "severe"
                               ELSE IF score < 45 THEN "borderline" ELSE "sharp"]]
    ELSE IF product_type = "Mobile"
    THEN [status |-> "ok",
          value |-> [type |-> "tuple", is_blur |-> score < 12, score |-> score,
                     level |-> IF score < 12 THEN "severe"
                               ELSE IF score < 18 THEN "borderline" ELSE "sharp"]]
    ELSE [status |-> "ok", value |-> None]

\* validate_resolution(image_file, product_type)
validate_resolution(w, h, product_type) ==
    IF product_type \notin DOMAIN CONFIG
    THEN [status |-> "raised", error |-> "KeyError"]
    ELSE [status |-> "ok",
          value |-> [type |-> "tuple",
                     is_valid |-> w >= CONFIG[product_type].min_width
                                  /\ h >= CONFIG[product_type].min_height,
                     width |-> w, height |-> h]]

\* get_cached_validation(file_bytes, view_name, product_type), given what
\* clip_view_check returns for the image.
get_cached_validation(w, h, score, product_type, view_check) ==
    LET res == validate_resolution(w, h, product_type)
        blur == is_blurry(score, product_type)
    IN  IF res.status = "raised" THEN res
        ELSE IF ~res.value.is_valid
        THEN [status |-> "ok",
              value |-> [type |-> "tuple", is_valid |-> FALSE,
                         reasons |-> <<"Resolution too low: " \o ToString(w) \o "x"
                                           \o ToString(h)>>,
                         info |-> <<>>]]
        ELSE IF blur.value = None
        THEN [status |-> "raised", error |-> "TypeError"]
        ELSE IF blur.value.is_blur
        THEN [status |-> "ok",
              value |-> [type |-> "tuple", is_valid |-> FALSE,
                         reasons |-> <<"Image too blurry (" \o blur.value.level \o ")">>,
                         info |-> <<>>]]
        ELSE IF ~view_check.passed
        THEN [status |-> "ok",
              value |-> [type |-> "tuple", is_valid |-> FALSE,
                         reasons |-> view_check.reasons, info |-> view_check.info]]
        ELSE [status |-> "ok",
              value |-> [type |-> "tuple", is_valid |-> TRUE, reasons |-> <<>>,
                         info |-> view_check.info]]

(***************************************************************************)
(* Inputs of the category-dependent operations.                            *)
(***************************************************************************)
CategoryNames == {"Laptop", "Mobile", "Tablet", "laptop", ""}

Widths == {399, 400, 799, 800}

Heights == {299, 300, 599, 600}

Scores == {11, 12, 17, 18, 29, 30, 44, 45}

\* What clip_view_check returns for the image.
ViewCheckResults ==
    { unregistered_view_result,
      [status |-> "ok", passed |-> FALSE,
       reasons |-> <<"Matching failed: a laptop keyboard">>, info |-> <<>>] }

CategoryCalls ==
    {[method |-> "get_inspection_views", product_type |-> c] : c \in CategoryNames}
    \cup {[method |-> "validate_resolution", product_type |-> c, width |-> w, height |-> h] :
             c \in CategoryNames, w \in Widths, h \in Heights}
    \cup {[method |-> "is_blurry", product_type |-> c, score |-> s] :
             c \in CategoryNames, s \in Scores}
    \cup {[method |-> "get_cached_validation", product_type |-> c, width |-> w,
           height |-> h, score |-> s, view_check |-> v] :
             c \in CategoryNames, w \in Widths, h \in Heights, s \in Scores,
             v \in ViewCheckResults}
    \cup {[method |-> "clip_product_check", selected_category |-> c,
           uploaded_files |-> <<[view |-> "Front screen", file |-> [logits |-> l]]>>] :
             c \in CategoryNames, l \in SampleLogits}

CategoryInit ==
    /\ age_depreciation_map = InitAgeDepreciationMap
    /\ defect_rates = InitDefectRates
    /\ call \in CategoryCalls
    /\ result = Pending
    /\ history = <<>>
    /\ session_state = InitSessionState

GetInspectionViewsCall ==
    /\ result = Pending
    /\ call.method = "get_inspection_views"
    /\ result' = get_inspection_views(call.product_type)
    /\ UNCHANGED <<age_depreciation_map, defect_rates, call, history, session_state>>

ValidateResolutionCall ==
    /\ result = Pending
    /\ call.method = "validate_resolution"
    /\ result' = validate_resolution(call.width, call.height, call.product_type)
    /\ UNCHANGED <<age_depreciation_map, defect_rates, call, history, session_state>>

IsBlurryCall ==
    /\ result = Pending
    /\ call.method = "is_blurry"
    /\ result' = is_blurry(call.score, call.product_type)
    /\ UNCHANGED <<age_depreciation_map, defect_rates, call, history, session_state>>

GetCachedValidationCall ==
    /\ result = Pending
    /\ call.method = "get_cached_validation"
    /\ result' = get_cached_validation(call.width, call.height, call.score,
                                       call.product_type, call.view_check)
    /\ UNCHANGED <<age_depreciation_map, defect_rates, call, history, session_state>>

CategoryProductCheckCall ==
    /\ result = Pending
    /\ call.method = "clip_product_check"
    /\ \E tops \in TopChoices(call.uploaded_files) :
          result' = clip_product_check(call.uploaded_files, call.selected_category, tops)
    /\ UNCHANGED <<age_depreciation_map, defect_rates, call, history, session_state>>

CategoryNext ==
    \/ GetInspectionViewsCall
    \/ ValidateResolutionCall
    \/ IsBlurryCall
    \/ GetCachedValidationCall
    \/ CategoryProductCheckCall

CategorySpec == CategoryInit /\ [][CategoryNext]_vars

\* The category of the latest call.
CategoryOf(c) ==
    IF c.method = "clip_product_check" THEN c.selected_category ELSE c.product_type

\* C26: an unrecognized product category (anything other than "Laptop" or
\* "Mobile") makes every category-dependent operation fail with an error:
\* get_inspection_views, validate_resolution, get_cached_validation,
\* is_blurry and clip_product_check never return a normal result for it.
C26_UnknownCategoryFailsFast ==
    (result # Pending /\ CategoryOf(call) \notin {"Laptop", "Mobile"}) =>
        result.status = "raised"

PartOfName(issue_type) ==
    /\ issue_type # ""
    /\ \E k \in 1..Len(VocabularyOrder) :
          /\ str_contains(issue_type, VocabularyOrder[k])
          /\ issue_type # VocabularyOrder[k]

\* C30: a vocabulary name matches only when the whole name occurs inside the
\* type, and the first such name in table order is taken.  A type that is
\* only a part or the singular of a name ("crack", "dent", "wear",
\* "scratch") and contains no whole name is priced with the "other" row; a
\* type that contains several names is priced with the earliest of them in
\* table order, whatever the rates of the later ones.
C30_WholeNameEarliestInTable ==
    DefectReturned =>
        \A i \in 1..Len(call.issues) :
            "type" \in DOMAIN call.issues[i] =>
                LET t == str_lower(call.issues[i].type[1])
                    entry == result.breakdown[i]
                IN  /\ t \in {"crack", "dent", "wear", "scratch"} =>
                          PricedWithRow(entry, "other")
                    /\ (PartOfName(t) /\ ContainedNames(t) = {}) =>
                          PricedWithRow(entry, "other")
                    /\ Cardinality(ContainedNames(t)) >= 2 =>
                          \E k \in ContainedNames(t) :
                              /\ \A m \in ContainedNames(t) : k <= m
                              /\ PricedWithRow(entry, VocabularyOrder[k])

\* The singular "scratch" with severity high is priced with the high rate of
\* "other", not with that of "scratches".
C30_Witness ==
    /\ DefectReturned
    /\ Len(call.issues) = 1
    /\ call.issues[1] = [type |-> <<"scratch">>, severity |-> <<"high">>]
    /\ result.breakdown[1].rate = RowOf("other").high
    /\ result.breakdown[1].rate # RowOf("scratches").high

====
